---- MODULE Spec2Model ----
(***************************************************************************)
(* minisql: a paged B+tree table (pager, node codec, table facade, cursor  *)
(* and command layer), modelled as a state machine over the page cache and *)
(* the backing file.                                                       *)
(*                                                                         *)
(* A page is a record of the fields the node codec reads and writes.  The  *)
(* metadata page's root number occupies bytes 0..8, i.e. the bytes of      *)
(* node_type, is_root and parent, so it is read through those fields.      *)
(* src/cursor.rs calls a node API that src/node.rs does not define         *)
(* (get_max_key, get_right_child, set_right_child, find_node_index) and    *)
(* commands.rs calls Cursor methods cursor.rs does not define (check_key,  *)
(* update); those helpers are modelled by their contract and named as such *)
(* where they are defined.                                                 *)
(*                                                                         *)
(* An operation is an operator from the machine it starts on to the        *)
(* machine it leaves; Let([x \in {e} |-> body]) binds x to the value of e   *)
(* in body, so that the steps of an operation read in the order in which   *)
(* the code takes them.                                                    *)
(***************************************************************************)
EXTENDS Integers, Sequences, FiniteSets, TLC

\* ---------------------------------------------------------------- bounds
MaxKey == 6
MaxVal == 2
PageBudget == 6
MaxDepth == 6
MaxOps == 6
MaxKeyLong == 18

Keys == 0..MaxKey
FewKeys == 0..(MaxKey - 1)
DeepKeys == 0..(MaxKey - 2)
LongKeys == 0..MaxKeyLong
Vals == 1..MaxVal

\* ------------------------------------------------------ program constants
PAGE_SIZE == 4096
MAX_PAGES == 100
META_NODE_NUM == 0
DEFAULT_ROOT_NUM == 1
LEAF_NODE_MAX_CELLS == 4
INTERNAL_NODE_MAX_CELLS == 4
LEAF_NODE_LEFT_SPLIT_COUNT == (LEAF_NODE_MAX_CELLS + 2) \div 2
LEAF_NODE_RIGHT_SPLIT_COUNT == LEAF_NODE_MAX_CELLS + 1 - LEAF_NODE_LEFT_SPLIT_COUNT
INTERNAL_NODE_LEFT_SPLIT_COUNT == (INTERNAL_NODE_MAX_CELLS + 2) \div 2
INTERNAL_NODE_RIGHT_SPLIT_COUNT == INTERNAL_NODE_MAX_CELLS + 1 - INTERNAL_NODE_LEFT_SPLIT_COUNT

NodeInternal == 0
NodeLeaf == 1

\* Cell slots of a page that the model keeps (the page has room for more).
LeafSlots == LEAF_NODE_MAX_CELLS + 2
InternalSlots == INTERNAL_NODE_MAX_CELLS + 3

VARIABLES
    file,         \* the backing file: a sequence of pages, file[p+1] is page p
    file_bytes,   \* the length of the backing file, in bytes
    file_length,  \* Pager.file_length: the length in bytes that Pager::open found
    num_pages,    \* Pager.num_pages
    pages,        \* Pager.pages: the cached slots, a function on the cached page numbers
    alive,        \* FALSE once the process has panicked
    rows,         \* history: key -> value of the rows inserted (and updated) and not deleted
    done,         \* history: the kinds of the commands that changed the state so far
    ops,          \* history: how many commands have changed the table
    last          \* history: the last command that changed the state, and its result

vars == <<file, file_bytes, file_length, num_pages, pages, alive, rows, done, ops, last>>

\* ------------------------------------------------------------------ pages
ZeroVal == [id |-> 0, data |-> 0]
ZeroCell == [key |-> 0, val |-> ZeroVal]
ZeroEntry == [child |-> 0, key |-> 0]

\* PageBuffer::new: a zero-filled page.
ZeroPage ==
    [type |-> 0, is_root |-> 0, parent |-> 0, num |-> 0, next_leaf |-> 0,
     right_child |-> 0,
     lc |-> [i \in 0..(LeafSlots - 1) |-> ZeroCell],
     ic |-> [i \in 0..(InternalSlots - 1) |-> ZeroEntry]]

\* Row::serialize: the value bytes of a row hold the id and the payload.
Serialize(id, data) == [id |-> id, data |-> data]

\* Let([x \in {e} |-> body]): body with x bound to e.
Let(f) == f[CHOOSE d \in DOMAIN f : TRUE]

\* The machine an operation runs on: the cache, the page count and how the
\* call chain stands ("ok", an Err(TableFull) being propagated, or a panic).
Machine(pg, np) == [pages |-> pg, num_pages |-> np, st |-> "ok"]

IsOk(m) == m.st = "ok"
Panicked(m) == [m EXCEPT !.st = "panic"]

\* What Pager::node reads on a cache miss: the file's page when the page
\* number is below the pages of the length the file had at open, zeroes
\* otherwise.
LoadPage(p) ==
    IF p < (file_length + PAGE_SIZE - 1) \div PAGE_SIZE THEN file[p + 1] ELSE ZeroPage

\* Pager::node
NodeAt(m, p) ==
    IF ~IsOk(m) THEN m
    ELSE IF p >= MAX_PAGES THEN [m EXCEPT !.st = "TableFull"]
    ELSE IF p \in DOMAIN m.pages THEN m
    ELSE [m EXCEPT !.pages = (p :> LoadPage(p)) @@ m.pages,
                   !.num_pages = IF p >= @ THEN p + 1 ELSE @]

\* A page number handed out a second time: the last one in use.
NewPageNumReused(m) == m.num_pages - 1

\* Pager::new_page_num
NewPageNum(m) == m.num_pages

Pg(m, p) == m.pages[p]
SetField(m, p, f, v) == IF IsOk(m) THEN [m EXCEPT !.pages[p][f] = v] ELSE m
SetLeafCell(m, p, i, c) == IF IsOk(m) THEN [m EXCEPT !.pages[p].lc[i] = c] ELSE m
SetEntry(m, p, i, e) == IF IsOk(m) THEN [m EXCEPT !.pages[p].ic[i] = e] ELSE m
SetKeyAt(m, p, i, k) == IF IsOk(m) THEN [m EXCEPT !.pages[p].ic[i].key = k] ELSE m
PutPage(m, p, pg) == IF IsOk(m) THEN [m EXCEPT !.pages[p] = pg] ELSE m

\* Node::leaf_node / leaf_node_mut behind Table::leaf_ref / leaf_mut:
\* fetch the page and assert that it is a leaf.
LeafView(m, p) ==
    Let([m1 \in {NodeAt(m, p)} |->
        IF IsOk(m1) /\ Pg(m1, p).type # NodeLeaf THEN Panicked(m1) ELSE m1])

\* Node::internal_node / internal_node_mut behind Table::internal_ref / internal_mut.
InternalView(m, p) ==
    Let([m1 \in {NodeAt(m, p)} |->
        IF IsOk(m1) /\ Pg(m1, p).type # NodeInternal THEN Panicked(m1) ELSE m1])

\* Node::init_leaf: the header only; the body keeps what the page held.
InitLeafPage(pg) == [pg EXCEPT !.type = NodeLeaf, !.is_root = 0, !.num = 0, !.next_leaf = 0]

\* Node::init_internal
InitInternalPage(pg) == [pg EXCEPT !.type = NodeInternal, !.is_root = 0, !.num = 0]

\* MetaMut::set_root_num: bytes 0..8 of the page, which are the bytes of
\* node_type (0), is_root (1) and the low bytes of parent (2..8).
SetRootNumPage(pg, r) ==
    [pg EXCEPT !.type = r % 256, !.is_root = (r \div 256) % 256, !.parent = r \div 65536]

\* MetaRef::get_root_num
GetRootNumPage(pg) == pg.type + 256 * pg.is_root + 65536 * pg.parent

\* Node::init_meta / MetaMut::init
InitMetaPage(pg) == SetRootNumPage(pg, DEFAULT_ROOT_NUM)

\* Node::get_type panics on a node_type byte that is neither 0 nor 1.
KnownType(pg) == pg.type \in {NodeInternal, NodeLeaf}

\* A value returned together with the machine it was computed on.
Ret(m, v) == [m |-> m, v |-> v]

\* Table::get_root_num
GetRootNum(m) ==
    Let([m1 \in {NodeAt(m, META_NODE_NUM)} |->
        Ret(m1, IF IsOk(m1) THEN GetRootNumPage(Pg(m1, META_NODE_NUM)) ELSE 0)])

\* ------------------------------------------------------------ node codec
RECURSIVE FindKeyLoop(_, _, _, _)
FindKeyLoop(pg, key, min_index, max_index) ==
    IF min_index < max_index
    THEN Let([index \in {(min_index + max_index) \div 2} |->
            IF pg.ic[index].key > key
            THEN FindKeyLoop(pg, key, min_index, index)
            ELSE FindKeyLoop(pg, key, index + 1, max_index)])
    ELSE min_index

\* InternalRef::find_key; -1 stands for None.
FindKey(pg, key) ==
    Let([min_index \in {FindKeyLoop(pg, key, 0, pg.num)} |->
        IF min_index = 0 THEN -1 ELSE min_index - 1])

\* The index find_key selects, None read as 0 (as Table::find_internal reads it):
\* the form in which cursor.rs uses find_key's result as an index.
FindKeyIndex(pg, key) ==
    Let([i \in {FindKey(pg, key)} |-> IF i = -1 THEN 0 ELSE i])

\* Node::get_max_key (called by cursor.rs, not defined in node.rs): the key of
\* the last cell of a leaf, of the last keyed entry of an internal node.  It
\* reads cell num - 1, which underflows on an empty node.
HasMaxKey(pg) == pg.num > 0
GetMaxKey(pg) == IF pg.type = NodeLeaf THEN pg.lc[pg.num - 1].key ELSE pg.ic[pg.num - 1].key

\* InternalRef::find_node_index (called by cursor.rs, not defined in node.rs):
\* the index of the entry whose child is node_num, num_keys for the right child.
FindNodeIndex(pg, node_num) ==
    IF \E i \in 0..(pg.num - 1) : pg.ic[i].child = node_num
    THEN CHOOSE i \in 0..(pg.num - 1) :
            /\ pg.ic[i].child = node_num
            /\ \A j \in 0..(i - 1) : pg.ic[j].child # node_num
    ELSE pg.num

\* ---------------------------------------------------------- table facade
Cursor(m, page_num, cell_num) ==
    [m |-> m, page_num |-> page_num, cell_num |-> cell_num, end_of_table |-> FALSE]

\* Cursor c on machine m.
On(c, m) == [c EXCEPT !.m = m]

\* Table::find_leaf's search comparing with mid_key > key.
RECURSIVE FindLeafLoopAbove(_, _, _, _)
FindLeafLoopAbove(pg, key, min_cell, max_cell) ==
    IF min_cell < max_cell
    THEN Let([mid_cell \in {(min_cell + max_cell) \div 2} |->
            IF pg.lc[mid_cell].key > key
            THEN FindLeafLoopAbove(pg, key, min_cell, mid_cell)
            ELSE FindLeafLoopAbove(pg, key, mid_cell + 1, max_cell)])
    ELSE max_cell

\* The loop of Table::find_leaf.
RECURSIVE FindLeafLoop(_, _, _, _)
FindLeafLoop(pg, key, min_cell, max_cell) ==
    IF min_cell < max_cell
    THEN Let([mid_cell \in {(min_cell + max_cell) \div 2} |->
            IF pg.lc[mid_cell].key >= key
            THEN FindLeafLoop(pg, key, min_cell, mid_cell)
            ELSE FindLeafLoop(pg, key, mid_cell + 1, max_cell)])
    ELSE max_cell

\* Table::find_leaf
FindLeaf(m, page_num, key) ==
    Let([m1 \in {LeafView(m, page_num)} |->
        IF ~IsOk(m1) THEN Cursor(m1, page_num, 0)
        ELSE Cursor(m1, page_num,
                    FindLeafLoop(Pg(m1, page_num), key, 0, Pg(m1, page_num).num))])

\* Table::find_internal's descent from an internal node into the child chosen.
RECURSIVE FindInternal(_, _, _, _)
FindChild(m, child, key, fuel) ==
    Let([m2 \in {NodeAt(m, child)} |->
        IF ~IsOk(m2) THEN Cursor(m2, child, 0)
        ELSE IF ~KnownType(Pg(m2, child)) THEN Cursor(Panicked(m2), child, 0)
        ELSE IF Pg(m2, child).type = NodeLeaf THEN FindLeaf(m2, child, key)
        ELSE FindInternal(m2, child, key, fuel - 1)])

\* Table::find_internal; the recursion is cut at MaxDepth calls, where the
\* program's stack overflows on a cycle of child pointers.
FindInternal(m, page_num, key, fuel) ==
    Let([m1 \in {InternalView(m, page_num)} |->
        IF ~IsOk(m1) THEN Cursor(m1, page_num, 0)
        ELSE IF fuel = 0 THEN Cursor(Panicked(m1), page_num, 0)
        ELSE Let([index \in {FindKey(Pg(m1, page_num), key)} |->
                FindChild(m1, Pg(m1, page_num).ic[IF index = -1 THEN 0 ELSE index].child,
                          key, fuel)])])

\* Table::find
Find(m, key) ==
    Let([r \in {GetRootNum(m)} |->
    Let([m1 \in {NodeAt(r.m, r.v)} |->
        IF ~IsOk(m1) THEN Cursor(m1, r.v, 0)
        ELSE IF ~KnownType(Pg(m1, r.v)) THEN Cursor(Panicked(m1), r.v, 0)
        ELSE IF Pg(m1, r.v).type = NodeLeaf THEN FindLeaf(m1, r.v, key)
        ELSE FindInternal(m1, r.v, key, MaxDepth)])])

\* Cursor::has_cell
HasCell(c) ==
    Let([m1 \in {LeafView(c.m, c.page_num)} |->
        Ret(m1, IsOk(m1) /\ c.cell_num < Pg(m1, c.page_num).num)])

\* Table::start
Start(m) ==
    Let([c \in {Find(m, 0)} |->
    Let([h \in {HasCell(c)} |->
        [c EXCEPT !.m = h.m, !.end_of_table = IsOk(h.m) /\ ~h.v]])])

\* Cursor::advance following next_leaf one cell late.
AdvanceLate(c) ==
    Let([m1 \in {LeafView(c.m, c.page_num)} |->
        IF ~IsOk(m1) THEN On(c, m1)
        ELSE IF c.cell_num + 1 > Pg(m1, c.page_num).num
        THEN IF Pg(m1, c.page_num).next_leaf = 0
             THEN [c EXCEPT !.m = m1, !.cell_num = c.cell_num + 1, !.end_of_table = TRUE]
             ELSE [c EXCEPT !.m = m1, !.page_num = Pg(m1, c.page_num).next_leaf,
                            !.cell_num = 0]
        ELSE [c EXCEPT !.m = m1, !.cell_num = c.cell_num + 1]])

\* Cursor::advance
Advance(c) ==
    Let([m1 \in {LeafView(c.m, c.page_num)} |->
        IF ~IsOk(m1) THEN On(c, m1)
        ELSE IF c.cell_num + 1 >= Pg(m1, c.page_num).num
        THEN IF Pg(m1, c.page_num).next_leaf = 0
             THEN [c EXCEPT !.m = m1, !.cell_num = c.cell_num + 1, !.end_of_table = TRUE]
             ELSE [c EXCEPT !.m = m1, !.page_num = Pg(m1, c.page_num).next_leaf,
                            !.cell_num = 0]
        ELSE [c EXCEPT !.m = m1, !.cell_num = c.cell_num + 1]])

\* ------------------------------------------------------- cursor: insert
\* Cursor::get_key_right_most: the last key of the right-most leaf below
\* node_num; v = -1 with a panicked machine where the program panics (cell
\* num_cells - 1 of an empty leaf, a leaf read as internal, a stack overflow).
RECURSIVE GetKeyRightMost(_, _, _)
GetKeyRightMost(m, node_num, fuel) ==
    Let([m1 \in {NodeAt(m, node_num)} |->
        IF ~IsOk(m1) THEN Ret(m1, -1)
        ELSE IF Pg(m1, node_num).type = NodeLeaf
        THEN IF Pg(m1, node_num).num = 0 THEN Ret(Panicked(m1), -1)
             ELSE Ret(m1, Pg(m1, node_num).lc[Pg(m1, node_num).num - 1].key)
        ELSE IF Pg(m1, node_num).type # NodeInternal \/ fuel = 0 THEN Ret(Panicked(m1), -1)
        ELSE GetKeyRightMost(m1, Pg(m1, node_num).right_child, fuel - 1)])

\* A new root whose right child is the first child of the node split off,
\* one level too low.
MoveRootHoist(m, root_page_num, left_child_num, right_child_num) ==
    IF ~IsOk(m) THEN m
    ELSE IF left_child_num = root_page_num THEN Panicked(m)
    ELSE
    Let([m4 \in {PutPage(PutPage(m, left_child_num,
                                 [Pg(m, root_page_num) EXCEPT !.is_root = 0]),
                         root_page_num,
                         [InitInternalPage(Pg(m, root_page_num)) EXCEPT
                             !.is_root = 1, !.num = 1,
                             !.ic[0].child = left_child_num,
                             !.right_child =
                                 IF Pg(m, right_child_num).type = NodeInternal
                                 THEN Pg(m, right_child_num).ic[0].child
                                 ELSE right_child_num])} |->
    Let([m6 \in {SetField(SetField(m4, left_child_num, "parent", root_page_num),
                          right_child_num, "parent", root_page_num)} |->
    Let([k \in {GetKeyRightMost(m6, left_child_num, MaxDepth)} |->
        SetKeyAt(k.m, root_page_num, 0, k.v)])])])

\* A new root whose key is the first key of the left child.
MoveRootFirstKey(m, root_page_num, left_child_num, right_child_num) ==
    IF ~IsOk(m) THEN m
    ELSE IF left_child_num = root_page_num THEN Panicked(m)
    ELSE
    Let([m4 \in {PutPage(PutPage(m, left_child_num,
                                 [Pg(m, root_page_num) EXCEPT !.is_root = 0]),
                         root_page_num,
                         [InitInternalPage(Pg(m, root_page_num)) EXCEPT
                             !.is_root = 1, !.num = 1,
                             !.ic[0].child = left_child_num,
                             !.right_child = right_child_num])} |->
    Let([m6 \in {SetField(SetField(m4, left_child_num, "parent", root_page_num),
                          right_child_num, "parent", root_page_num)} |->
        SetKeyAt(m6, root_page_num, 0,
                 IF Pg(m6, left_child_num).type = NodeLeaf
                 THEN Pg(m6, left_child_num).lc[0].key
                 ELSE Pg(m6, left_child_num).ic[0].key)])])

\* Cursor::create_new_root, from the copy of the root into the left child on;
\* the two raw buffers are borrowed together, which panics on one page.
MoveRoot(m, root_page_num, left_child_num, right_child_num) ==
    IF ~IsOk(m) THEN m
    ELSE IF left_child_num = root_page_num THEN Panicked(m)
    ELSE
    Let([m4 \in {PutPage(PutPage(m, left_child_num,
                                 [Pg(m, root_page_num) EXCEPT !.is_root = 0]),
                         root_page_num,
                         [InitInternalPage(Pg(m, root_page_num)) EXCEPT
                             !.is_root = 1, !.num = 1,
                             !.ic[0].child = left_child_num,
                             !.right_child = right_child_num])} |->
    Let([m6 \in {SetField(SetField(m4, left_child_num, "parent", root_page_num),
                          right_child_num, "parent", root_page_num)} |->
    Let([k \in {GetKeyRightMost(m6, left_child_num, MaxDepth)} |->
        SetKeyAt(k.m, root_page_num, 0, k.v)])])])

\* Cursor::create_new_root; table.root_page_num, a field table.rs does not
\* define, is read as Table::get_root_num.
CreateNewRoot(m, right_child_num) ==
    Let([m1 \in {NodeAt(m, right_child_num)} |->
    Let([left_child_num \in {NewPageNum(m1)} |->
    Let([r \in {GetRootNum(NodeAt(m1, left_child_num))} |->
    Let([m3 \in {NodeAt(r.m, r.v)} |->
        MoveRoot(m3, r.v, left_child_num, right_child_num)])])])])

\* Cursor::update_internal_node_key
UpdateInternalNodeKey(m, parent_num, old_key, new_key) ==
    Let([m1 \in {InternalView(m, parent_num)} |->
        IF ~IsOk(m1) THEN m1
        ELSE SetKeyAt(m1, parent_num, FindKeyIndex(Pg(m1, parent_num), old_key), new_key)])

\* The (key, child) that the loop of Cursor::split_and_insert_internal_node
\* places at position i of the node's entries with the new child among them.
SplitEntry(old, num_keys, child_num, child_max, child_index, right_max, i) ==
    IF i = num_keys + 1
    THEN IF right_max < child_max
         THEN [key |-> child_max, child |-> child_num]
         ELSE [key |-> right_max, child |-> old.right_child]
    ELSE IF i = child_index
    THEN IF ~(right_max < child_max)
         THEN [key |-> child_max, child |-> child_num]
         ELSE [key |-> right_max, child |-> old.right_child]
    ELSE IF i >= child_index
    THEN [key |-> old.ic[i - 1].key, child |-> old.ic[i - 1].child]
    ELSE [key |-> old.ic[i].key, child |-> old.ic[i].child]

\* Where the loop puts the entry of position i.
PlaceEntry(m, node_num, new_node_num, i, e) ==
    IF i < INTERNAL_NODE_LEFT_SPLIT_COUNT
    THEN SetEntry(m, node_num, i, e)
    ELSE IF i = INTERNAL_NODE_LEFT_SPLIT_COUNT
    THEN SetField(m, node_num, "right_child", e.child)
    ELSE IF i - INTERNAL_NODE_LEFT_SPLIT_COUNT - 1 < INTERNAL_NODE_RIGHT_SPLIT_COUNT
    THEN SetEntry(m, new_node_num, i - INTERNAL_NODE_LEFT_SPLIT_COUNT - 1, e)
    ELSE IF i - INTERNAL_NODE_LEFT_SPLIT_COUNT - 1 = INTERNAL_NODE_RIGHT_SPLIT_COUNT
    THEN SetField(m, new_node_num, "right_child", e.child)
    ELSE Panicked(m)

\* The loop of Cursor::split_and_insert_internal_node, from entry i down to 0.
RECURSIVE SplitInternalLoop(_, _, _, _, _, _, _, _, _)
SplitInternalLoop(m, node_num, new_node_num, num_keys, child_num, child_max, child_index, right_max, i) ==
    IF ~IsOk(m) \/ i < 0 THEN m
    ELSE SplitInternalLoop(
            PlaceEntry(m, node_num, new_node_num, i,
                       SplitEntry(Pg(m, node_num), num_keys, child_num, child_max,
                                  child_index, right_max, i)),
            node_num, new_node_num, num_keys, child_num, child_max, child_index,
            right_max, i - 1)

RECURSIVE UpdateParent(_, _, _, _, _, _, _)
RECURSIVE InsertInternalNode(_, _, _, _)
RECURSIVE SplitAndInsertInternalNode(_, _, _, _, _, _, _)

\* Cursor::update_parent; the chain of promotions is cut at MaxDepth levels,
\* where the program's stack overflows on a cycle of parent pointers.
UpdateParent(m, old_is_root, parent_num, old_key, new_key, new_node, fuel) ==
    IF ~IsOk(m) THEN m
    ELSE IF fuel = 0 THEN Panicked(m)
    ELSE IF old_is_root THEN CreateNewRoot(m, new_node)
    ELSE InsertInternalNode(UpdateInternalNodeKey(m, parent_num, old_key, new_key),
                            parent_num, new_node, fuel)

\* Cursor::insert_internal_node, once the child's and the right child's
\* largest keys are known.
PlaceChild(m, parent_num, child_num, child_max, index, right_max, fuel) ==
    Let([parent \in {Pg(m, parent_num)} |->
        IF parent.num >= INTERNAL_NODE_MAX_CELLS
        THEN SplitAndInsertInternalNode(m, parent_num, child_num, child_max,
                                        index, right_max, fuel)
        ELSE IF child_max > right_max
        THEN PutPage(m, parent_num,
                [parent EXCEPT !.num = parent.num + 1,
                    !.ic[parent.num] = [key |-> right_max, child |-> parent.right_child],
                    !.right_child = child_num])
        ELSE PutPage(m, parent_num,
                [parent EXCEPT !.num = parent.num + 1,
                    !.ic = [j \in DOMAIN parent.ic |->
                              IF j = index
                              THEN [key |-> child_max, child |-> child_num]
                              ELSE IF j > index /\ j <= parent.num
                              THEN parent.ic[j - 1]
                              ELSE parent.ic[j]]])])

\* Cursor::insert_internal_node
InsertInternalNode(m, parent_num, child_num, fuel) ==
    Let([m2 \in {NodeAt(InternalView(m, parent_num), child_num)} |->
        IF ~IsOk(m2) THEN m2
        ELSE IF ~HasMaxKey(Pg(m2, child_num)) THEN Panicked(m2)
        ELSE
        Let([rm \in {GetKeyRightMost(m2, Pg(m2, parent_num).right_child, MaxDepth)} |->
            IF ~IsOk(rm.m) THEN rm.m
            ELSE PlaceChild(rm.m, parent_num, child_num,
                            GetMaxKey(Pg(m2, child_num)),
                            FindKeyIndex(Pg(m2, parent_num), GetMaxKey(Pg(m2, child_num))),
                            rm.v, fuel)])])

\* The split of an internal node with one key too few counted on the new
\* node.
SplitAndInsertInternalNodeShort(m, node_num, child_num, child_max, child_index, right_max, fuel) ==
    Let([m1 \in {InternalView(m, node_num)} |->
    Let([new_node_num \in {NewPageNum(m1)} |->
    Let([m2 \in {NodeAt(m1, new_node_num)} |->
        IF ~IsOk(m2) THEN m2
        ELSE
        Let([m4 \in {SetField(PutPage(m2, new_node_num,
                                      InitInternalPage(Pg(m2, new_node_num))),
                              new_node_num, "num", INTERNAL_NODE_RIGHT_SPLIT_COUNT - 1)} |->
        Let([m6 \in {SetField(SplitInternalLoop(m4, node_num, new_node_num,
                                                Pg(m4, node_num).num, child_num,
                                                child_max, child_index, right_max,
                                                Pg(m4, node_num).num + 1),
                              node_num, "num", INTERNAL_NODE_LEFT_SPLIT_COUNT)} |->
            IF ~IsOk(m6) THEN m6
            ELSE UpdateParent(m6, Pg(m6, node_num).is_root = 1, Pg(m6, node_num).parent,
                              GetMaxKey(Pg(m6, node_num)), GetMaxKey(Pg(m6, new_node_num)),
                              new_node_num, fuel - 1)])])])])])

\* Cursor::split_and_insert_internal_node
SplitAndInsertInternalNode(m, node_num, child_num, child_max, child_index, right_max, fuel) ==
    Let([m1 \in {InternalView(m, node_num)} |->
    Let([new_node_num \in {NewPageNum(m1)} |->
    Let([m2 \in {NodeAt(m1, new_node_num)} |->
        IF ~IsOk(m2) THEN m2
        ELSE
        Let([m4 \in {SetField(PutPage(m2, new_node_num,
                                      InitInternalPage(Pg(m2, new_node_num))),
                              new_node_num, "num", INTERNAL_NODE_RIGHT_SPLIT_COUNT)} |->
        Let([m6 \in {SetField(SplitInternalLoop(m4, node_num, new_node_num,
                                                Pg(m4, node_num).num, child_num,
                                                child_max, child_index, right_max,
                                                Pg(m4, node_num).num + 1),
                              node_num, "num", INTERNAL_NODE_LEFT_SPLIT_COUNT)} |->
            IF ~IsOk(m6) THEN m6
            ELSE UpdateParent(m6, Pg(m6, node_num).is_root = 1, Pg(m6, node_num).parent,
                              GetMaxKey(Pg(m6, node_num)), GetMaxKey(Pg(m6, new_node_num)),
                              new_node_num, fuel - 1)])])])])])

\* The cell that the loop of Cursor::split_and_insert places at position i
\* of the leaf's cells with the new cell among them.
SplitCell(old, cell_num, key, value, i) ==
    IF i = cell_num THEN [key |-> key, val |-> value]
    ELSE old.lc[IF i > cell_num THEN i - 1 ELSE i]

\* The loop of Cursor::split_and_insert, from cell i down to 0.
RECURSIVE SplitLeafLoop(_, _, _, _, _, _, _)
SplitLeafLoop(m, page_num, new_page_num, cell_num, key, value, i) ==
    IF ~IsOk(m) \/ i < 0 THEN m
    ELSE SplitLeafLoop(
            IF i >= LEAF_NODE_LEFT_SPLIT_COUNT
            THEN SetLeafCell(m, new_page_num, i - LEAF_NODE_LEFT_SPLIT_COUNT,
                             SplitCell(Pg(m, page_num), cell_num, key, value, i))
            ELSE SetLeafCell(m, page_num, i,
                             SplitCell(Pg(m, page_num), cell_num, key, value, i)),
            page_num, new_page_num, cell_num, key, value, i - 1)

\* Cursor::split_and_insert, after the loop: the links and counts of the two
\* leaves, then the parent.
LinkLeaves(m, page_num, new_page_num) ==
    Let([old1 \in {[Pg(m, page_num) EXCEPT
                      !.next_leaf = new_page_num,
                      !.num = LEAF_NODE_LEFT_SPLIT_COUNT]} |->
    Let([new1 \in {[Pg(m, new_page_num) EXCEPT
                      !.next_leaf = Pg(m, page_num).next_leaf,
                      !.num = LEAF_NODE_RIGHT_SPLIT_COUNT,
                      !.parent = old1.parent]} |->
        UpdateParent(PutPage(PutPage(m, page_num, old1), new_page_num, new1),
                     old1.is_root = 1, old1.parent, GetMaxKey(old1), GetMaxKey(new1),
                     new_page_num, MaxDepth)])])

\* Cursor::split_and_insert
SplitAndInsert(c, key, value) ==
    Let([m1 \in {LeafView(c.m, c.page_num)} |->
    Let([new_page_num \in {NewPageNum(m1)} |->
    Let([m2 \in {NodeAt(m1, new_page_num)} |->
        IF ~IsOk(m2) THEN m2
        ELSE
        Let([m4 \in {SplitLeafLoop(PutPage(m2, new_page_num,
                                           InitLeafPage(Pg(m2, new_page_num))),
                                   c.page_num, new_page_num, c.cell_num, key, value,
                                   LEAF_NODE_MAX_CELLS)} |->
            LinkLeaves(m4, c.page_num, new_page_num)])])])])

\* Cursor::insert
CursorInsert(c, key, value) ==
    Let([m1 \in {LeafView(c.m, c.page_num)} |->
        IF ~IsOk(m1) THEN m1
        ELSE
        Let([node \in {Pg(m1, c.page_num)} |->
            IF node.num >= LEAF_NODE_MAX_CELLS THEN SplitAndInsert(On(c, m1), key, value)
            ELSE PutPage(m1, c.page_num,
                    [node EXCEPT !.num = node.num + 1,
                        !.lc = [j \in DOMAIN node.lc |->
                                  IF j = c.cell_num THEN [key |-> key, val |-> value]
                                  ELSE IF j > c.cell_num /\ j <= node.num THEN node.lc[j - 1]
                                  ELSE node.lc[j]]])])])

\* ------------------------------------------------------- cursor: remove
\* The right child of the internal node r.v, None (-1) carried through.
RightChildOf(r) ==
    IF ~IsOk(r.m) \/ r.v = -1 THEN Ret(r.m, -1)
    ELSE Let([m3 \in {InternalView(r.m, r.v)} |->
            IF ~IsOk(m3) THEN Ret(m3, -1) ELSE Ret(m3, Pg(m3, r.v).right_child)])

\* The first child of the internal node r.v, None (-1) carried through.
FirstChildOf(r) ==
    IF ~IsOk(r.m) \/ r.v = -1 THEN Ret(r.m, -1)
    ELSE Let([m3 \in {InternalView(r.m, r.v)} |->
            IF ~IsOk(m3) THEN Ret(m3, -1) ELSE Ret(m3, Pg(m3, r.v).ic[0].child)])

\* Cursor::prev_internal; v = -1 stands for None.
RECURSIVE PrevInternal(_, _, _)
PrevInternal(m, node_num, fuel) ==
    Let([m1 \in {InternalView(m, node_num)} |->
        IF ~IsOk(m1) THEN Ret(m1, -1)
        ELSE IF fuel = 0 THEN Ret(Panicked(m1), -1)
        ELSE IF Pg(m1, node_num).is_root = 1 THEN Ret(m1, -1)
        ELSE
        Let([parent_num \in {Pg(m1, node_num).parent} |->
        Let([k \in {GetKeyRightMost(InternalView(m1, parent_num), node_num, MaxDepth)} |->
            IF ~IsOk(k.m) THEN Ret(k.m, -1)
            ELSE
            Let([index \in {FindNodeIndex(Pg(k.m, parent_num), node_num)} |->
                IF index = 0
                THEN IF Pg(k.m, parent_num).is_root = 1 THEN Ret(k.m, -1)
                     ELSE Let([pp \in {PrevInternal(k.m, parent_num, fuel - 1)} |->
                              RightChildOf(pp)])
                ELSE Ret(k.m, Pg(k.m, parent_num).ic[index - 1].child)])])])])

\* Cursor::next_internal; v = -1 stands for None.
RECURSIVE NextInternal(_, _, _)
NextInternal(m, node_num, fuel) ==
    Let([m1 \in {InternalView(m, node_num)} |->
        IF ~IsOk(m1) THEN Ret(m1, -1)
        ELSE IF fuel = 0 THEN Ret(Panicked(m1), -1)
        ELSE IF Pg(m1, node_num).is_root = 1 THEN Ret(m1, -1)
        ELSE
        Let([parent_num \in {Pg(m1, node_num).parent} |->
        Let([k \in {GetKeyRightMost(InternalView(m1, parent_num), node_num, MaxDepth)} |->
            IF ~IsOk(k.m) THEN Ret(k.m, -1)
            ELSE
            Let([index \in {FindNodeIndex(Pg(k.m, parent_num), node_num)} |->
                IF index = Pg(k.m, parent_num).num
                THEN IF Pg(k.m, parent_num).is_root = 1 THEN Ret(k.m, -1)
                     ELSE Let([np \in {NextInternal(k.m, parent_num, fuel - 1)} |->
                              FirstChildOf(np)])
                ELSE Ret(k.m, Pg(k.m, parent_num).ic[index + 1].child)])])])])

\* Cursor::previous_leaf; v = -1 stands for None.
PreviousLeaf(m, leaf_num) ==
    Let([m1 \in {LeafView(m, leaf_num)} |->
        IF ~IsOk(m1) THEN Ret(m1, -1)
        ELSE IF ~HasMaxKey(Pg(m1, leaf_num)) THEN Ret(Panicked(m1), -1)
        ELSE IF Pg(m1, leaf_num).is_root = 1 THEN Ret(m1, -1)
        ELSE
        Let([parent_num \in {Pg(m1, leaf_num).parent} |->
        Let([m2 \in {InternalView(m1, parent_num)} |->
            IF ~IsOk(m2) THEN Ret(m2, -1)
            ELSE
            Let([index \in {FindNodeIndex(Pg(m2, parent_num), leaf_num)} |->
                IF index = 0
                THEN IF Pg(m2, parent_num).is_root = 1 THEN Ret(m2, -1)
                     ELSE Let([pp \in {PrevInternal(m2, parent_num, MaxDepth)} |->
                              RightChildOf(pp)])
                ELSE Ret(m2, Pg(m2, parent_num).ic[index - 1].child)])])])])

\* Cursor::update_key
RECURSIVE UpdateKey(_, _, _, _, _)
UpdateKey(m, node_num, index, key, fuel) ==
    Let([m1 \in {InternalView(m, node_num)} |->
        IF ~IsOk(m1) THEN m1
        ELSE IF fuel = 0 THEN Panicked(m1)
        ELSE IF Pg(m1, node_num).num = index THEN m1
        ELSE
        Let([m2 \in {SetKeyAt(m1, node_num, index, key)} |->
            IF Pg(m2, node_num).is_root = 1 THEN m2
            ELSE
            Let([parent_num \in {Pg(m2, node_num).parent} |->
            Let([m3 \in {InternalView(m2, parent_num)} |->
                IF ~IsOk(m3) THEN m3
                ELSE IF ~HasMaxKey(Pg(m3, node_num)) THEN Panicked(m3)
                ELSE UpdateKey(m3, parent_num,
                               FindNodeIndex(Pg(m3, parent_num), node_num),
                               key, fuel - 1)])])])])

\* Cursor::merge_and_remove_internal, once the three largest keys are read:
\* left takes left's right child under key k, then right's entries.
JoinInternal(m, left_num, right_num, left_num_keys, right_num_keys, left_last_num, k) ==
    IF ~IsOk(m) THEN m
    ELSE
    Let([left \in {Pg(m, left_num)} |->
    Let([right \in {Pg(m, right_num)} |->
        PutPage(m, left_num,
            [left EXCEPT !.num = left_num_keys + 1 + right_num_keys,
                !.ic = [j \in DOMAIN left.ic |->
                          IF j = left_num_keys
                          THEN [child |-> left_last_num, key |-> k]
                          ELSE IF j > left_num_keys /\ j <= left_num_keys + right_num_keys
                          THEN right.ic[j - left_num_keys - 1]
                          ELSE left.ic[j]],
                !.right_child = right.right_child])])])

\* Cursor::merge_and_remove_internal
MergeAndRemoveInternal(m, left_num, right_num) ==
    Let([m1 \in {InternalView(InternalView(m, left_num), right_num)} |->
        IF ~IsOk(m1) THEN m1
        ELSE
        Let([k1 \in {GetKeyRightMost(InternalView(m1, Pg(m1, left_num).parent),
                                     left_num, MaxDepth)} |->
        Let([k2 \in {GetKeyRightMost(InternalView(k1.m, Pg(m1, right_num).parent),
                                     right_num, MaxDepth)} |->
        Let([k3 \in {GetKeyRightMost(k2.m, Pg(m1, left_num).right_child, MaxDepth)} |->
            JoinInternal(k3.m, left_num, right_num, Pg(m1, left_num).num,
                         Pg(m1, right_num).num, Pg(m1, left_num).right_child, k3.v)])])])])

\* The root left as it is when its last key is gone.
CollapseRootSkipped(m, node_num) == m

\* The root taking over its single child without parent.set_root(true): the
\* root keeps the flag of the child it copies.
CollapseRootUnmarked(m, node_num) ==
    IF Pg(m, node_num).num # 0 THEN m
    ELSE
    Let([single \in {Pg(m, node_num).ic[0].child} |->
    Let([m2 \in {NodeAt(m, single)} |->
        IF ~IsOk(m2) THEN m2
        ELSE IF single = node_num THEN Panicked(m2)
        ELSE PutPage(m2, node_num, Pg(m2, single))])])

\* Cursor::balance_internal, root case: a root without keys takes over its
\* single child; the two raw buffers are borrowed together.
CollapseRoot(m, node_num) ==
    IF Pg(m, node_num).num # 0 THEN m
    ELSE
    Let([single \in {Pg(m, node_num).ic[0].child} |->
    Let([m2 \in {NodeAt(m, single)} |->
        IF ~IsOk(m2) THEN m2
        ELSE IF single = node_num THEN Panicked(m2)
        ELSE PutPage(m2, node_num, [Pg(m2, single) EXCEPT !.is_root = 1])])])

\* Cursor::balance_internal, the shift of right's first child into node.
ShiftFromRight(m, node_num, right_num, num_keys, right_num_keys) ==
    Let([k \in {GetKeyRightMost(m, node_num, MaxDepth)} |->
        IF ~IsOk(k.m) THEN k.m
        ELSE
        Let([n0 \in {Pg(k.m, node_num)} |->
        Let([r0 \in {Pg(k.m, right_num)} |->
        Let([m4 \in {PutPage(k.m, node_num,
                        [n0 EXCEPT !.num = num_keys + 1,
                            !.ic[num_keys] = [key |-> k.v, child |-> n0.right_child],
                            !.right_child = r0.ic[0].child])} |->
        Let([r \in {Pg(m4, right_num)} |->
        Let([m5 \in {PutPage(m4, right_num,
                        [r EXCEPT !.ic = [j \in DOMAIN r0.ic |->
                                            IF j + 1 < right_num_keys
                                            THEN r.ic[j + 1] ELSE r.ic[j]]])} |->
        Let([parent_num \in {Pg(m5, node_num).parent} |->
        Let([m6 \in {InternalView(m5, parent_num)} |->
            IF ~IsOk(m6) THEN m6
            ELSE
            Let([k2 \in {GetKeyRightMost(m6, node_num, MaxDepth)} |->
                IF ~IsOk(k2.m) THEN k2.m
                ELSE UpdateKey(k2.m, parent_num,
                               FindNodeIndex(Pg(m6, parent_num), node_num),
                               k2.v, MaxDepth)])])])])])])])])])

\* Cursor::balance_internal.  With no next internal node every path panics:
\* "singleton?", or the unwrap of the missing right sibling (which
\* merge_and_remove_internal(node_num, right_num) is given, and which follows
\* the shift from the left).
BalanceInternal(m, node_num) ==
    Let([m1 \in {InternalView(m, node_num)} |->
        IF ~IsOk(m1) THEN Panicked(m)
        ELSE IF Pg(m1, node_num).num >= INTERNAL_NODE_RIGHT_SPLIT_COUNT THEN m1
        ELSE IF Pg(m1, node_num).is_root = 1 THEN CollapseRoot(m1, node_num)
        ELSE
        Let([rn \in {NextInternal(m1, node_num, MaxDepth)} |->
            IF ~IsOk(rn.m) THEN rn.m
            ELSE IF rn.v = -1 THEN Panicked(rn.m)
            ELSE
            Let([m3 \in {InternalView(rn.m, rn.v)} |->
                IF ~IsOk(m3) THEN m3
                ELSE IF Pg(m1, node_num).num + Pg(m3, rn.v).num + 2
                            <= INTERNAL_NODE_MAX_CELLS + 1
                THEN MergeAndRemoveInternal(m3, node_num, rn.v)
                ELSE ShiftFromRight(m3, node_num, rn.v, Pg(m1, node_num).num,
                                    Pg(m3, rn.v).num)])])])

\* Cursor::remove_key_from_internal, the parent without entry key_index.
WithoutEntry(parent, key_index) ==
    IF key_index = parent.num
    THEN [parent EXCEPT !.right_child = parent.ic[key_index - 1].child,
                        !.num = parent.num - 1]
    ELSE [parent EXCEPT !.num = parent.num - 1,
            !.ic = [j \in DOMAIN parent.ic |->
                      [key |-> IF j >= key_index /\ j < parent.num
                               THEN parent.ic[j + 1].key
                               ELSE parent.ic[j].key,
                       child |-> IF j >= key_index /\ j < parent.num - 1
                                 THEN parent.ic[j + 1].child
                                 ELSE parent.ic[j].child]]]

\* Cursor::remove_key_from_internal
RemoveKeyFromInternal(m, parent_num, key_index) ==
    Let([m1 \in {InternalView(m, parent_num)} |->
        IF ~IsOk(m1) THEN m1
        ELSE IF key_index = Pg(m1, parent_num).num /\ key_index = 0 THEN Panicked(m1)
        ELSE
        Let([m2 \in {PutPage(m1, parent_num,
                             WithoutEntry(Pg(m1, parent_num), key_index))} |->
            IF Pg(m2, parent_num).is_root = 1 THEN CollapseRoot(m2, parent_num)
            ELSE BalanceInternal(m2, parent_num)])])

\* Copy right's cells 0..right_cells-1 behind left's, one cell at a time.
RECURSIVE MoveCells(_, _, _, _, _, _)
MoveCells(m, left_num, right_num, left_cells, right_cells, i) ==
    IF i >= right_cells THEN m
    ELSE MoveCells(SetLeafCell(m, left_num, left_cells + i, Pg(m, right_num).lc[i]),
                   left_num, right_num, left_cells, right_cells, i + 1)

\* Cursor::merge_and_remove, from the parent on: left's key, then right's
\* entry is taken out.
DropRight(m, parent_num, left_num, right_num, left_key) ==
    Let([m5 \in {InternalView(m, parent_num)} |->
        IF ~IsOk(m5) THEN m5
        ELSE
        Let([m6 \in {UpdateKey(m5, parent_num,
                               FindNodeIndex(Pg(m5, parent_num), left_num),
                               left_key, MaxDepth)} |->
            IF ~IsOk(m6) THEN m6
            ELSE RemoveKeyFromInternal(m6, parent_num,
                                       FindNodeIndex(Pg(m6, parent_num), right_num))])])

\* Cursor::merge_and_remove
MergeAndRemove(m, left_num, right_num) ==
    Let([m1 \in {LeafView(LeafView(m, left_num), right_num)} |->
        IF ~IsOk(m1) THEN m1
        ELSE
        Let([left \in {Pg(m1, left_num)} |->
        Let([right \in {Pg(m1, right_num)} |->
            IF ~HasMaxKey(left) \/ ~HasMaxKey(right) THEN Panicked(m1)
            ELSE IF left.num + right.num > LEAF_NODE_MAX_CELLS THEN Panicked(m1)
            ELSE
            Let([m2 \in {MoveCells(m1, left_num, right_num, left.num, right.num, 0)} |->
            Let([m4 \in {SetField(SetField(m2, left_num, "next_leaf",
                                           Pg(m2, right_num).next_leaf),
                                  left_num, "num", left.num + right.num)} |->
                DropRight(m4, Pg(m4, left_num).parent, left_num, right_num,
                          GetMaxKey(left))])])])])])

\* Cursor::remove, the leaf without cell cell_num.
WithoutCell(leaf, cell_num) ==
    [leaf EXCEPT !.num = leaf.num - 1,
        !.lc = [j \in DOMAIN leaf.lc |->
                  IF j >= cell_num /\ j < leaf.num - 1 THEN leaf.lc[j + 1] ELSE leaf.lc[j]]]

\* Cursor::remove, the last cell of the left leaf moves to the front of leaf;
\* the two cells are borrowed together, which panics on one page.
ShiftFromLeftLeaf(m, leaf_num, left_num) ==
    IF left_num = leaf_num THEN Panicked(m)
    ELSE
    Let([leaf \in {Pg(m, leaf_num)} |->
    Let([left \in {Pg(m, left_num)} |->
    Let([m3 \in {PutPage(PutPage(m, leaf_num,
                            [leaf EXCEPT !.num = leaf.num + 1,
                                !.lc = [j \in DOMAIN leaf.lc |->
                                          IF j = 0 THEN left.lc[left.num - 1]
                                          ELSE IF j <= leaf.num THEN leaf.lc[j - 1]
                                          ELSE leaf.lc[j]]]),
                         left_num, [left EXCEPT !.num = left.num - 1])} |->
    Let([m4 \in {InternalView(m3, left.parent)} |->
        IF ~IsOk(m4) THEN m4
        ELSE IF left.num - 1 = 0 THEN Panicked(m4)
        ELSE UpdateKey(m4, left.parent,
                       FindNodeIndex(Pg(m4, left.parent), left_num),
                       left.lc[left.num - 2].key, MaxDepth)])])])])

\* Cursor::remove, the first cell of the right leaf moves to the end of leaf.
ShiftFromRightLeaf(m, leaf_num, right_index) ==
    IF right_index = leaf_num THEN Panicked(m)
    ELSE
    Let([leaf \in {Pg(m, leaf_num)} |->
    Let([right \in {Pg(m, right_index)} |->
    Let([m3 \in {PutPage(PutPage(m, leaf_num,
                            [leaf EXCEPT !.num = leaf.num + 1,
                                         !.lc[leaf.num] = right.lc[0]]),
                         right_index,
                         [right EXCEPT !.num = right.num - 1,
                             !.lc = [j \in DOMAIN right.lc |->
                                       IF j < right.num - 1 THEN right.lc[j + 1]
                                       ELSE right.lc[j]]])} |->
    Let([m4 \in {InternalView(m3, leaf.parent)} |->
        IF ~IsOk(m4) THEN m4
        ELSE UpdateKey(m4, leaf.parent,
                       FindNodeIndex(Pg(m4, leaf.parent), leaf_num),
                       right.lc[0].key, MaxDepth)])])])])

\* Cursor::remove, a leaf under its minimum that is the last of the chain.
BalanceWithLeft(m, leaf_num) ==
    Let([pl \in {PreviousLeaf(m, leaf_num)} |->
        IF ~IsOk(pl.m) THEN pl.m
        ELSE IF pl.v = -1 THEN Panicked(pl.m)
        ELSE
        Let([m2 \in {LeafView(pl.m, pl.v)} |->
            IF ~IsOk(m2) THEN m2
            ELSE IF Pg(m2, pl.v).num + Pg(m2, leaf_num).num <= LEAF_NODE_MAX_CELLS
            THEN MergeAndRemove(m2, pl.v, leaf_num)
            ELSE ShiftFromLeftLeaf(m2, leaf_num, pl.v)])])

\* Cursor::remove, a leaf under its minimum that has a next leaf.  The
\* result of merge_and_remove is dropped: an Err is lost, a panic is not.
BalanceWithRight(m, leaf_num, right_index) ==
    Let([m2 \in {LeafView(m, right_index)} |->
        IF ~IsOk(m2) THEN m2
        ELSE IF Pg(m2, right_index).num + Pg(m2, leaf_num).num <= LEAF_NODE_MAX_CELLS
        THEN Let([m3 \in {MergeAndRemove(m2, leaf_num, right_index)} |->
                IF m3.st = "panic" THEN m3 ELSE [m3 EXCEPT !.st = "ok"]])
        ELSE ShiftFromRightLeaf(m2, leaf_num, right_index)])

\* Cursor::remove
CursorRemove(c) ==
    Let([h \in {HasCell(c)} |->
        IF ~IsOk(h.m) THEN h.m
        ELSE IF ~h.v THEN [h.m EXCEPT !.st = "NoData"]
        ELSE
        Let([leaf1 \in {WithoutCell(Pg(h.m, c.page_num), c.cell_num)} |->
        Let([m1 \in {PutPage(h.m, c.page_num, leaf1)} |->
            IF leaf1.is_root = 1 THEN m1
            ELSE IF leaf1.num >= LEAF_NODE_RIGHT_SPLIT_COUNT THEN m1
            ELSE IF leaf1.next_leaf = 0 THEN BalanceWithLeft(m1, c.page_num)
            ELSE BalanceWithRight(m1, c.page_num, leaf1.next_leaf)])])])

\* Cursor::check_key (called by commands.rs, not defined in cursor.rs): the
\* cursor stands on a cell and that cell holds the key, the test Insert and
\* Delete spell out.
CheckKey(c, key) ==
    Let([h \in {HasCell(c)} |->
        Ret(h.m, IsOk(h.m) /\ h.v /\ Pg(h.m, c.page_num).lc[c.cell_num].key = key)])

\* Cursor::update (called by commands.rs, not defined in cursor.rs): overwrite
\* the value of the cursor's cell in place.
CursorUpdate(c, value) ==
    Let([m1 \in {LeafView(c.m, c.page_num)} |->
        IF ~IsOk(m1) THEN m1
        ELSE PutPage(m1, c.page_num,
                     [Pg(m1, c.page_num) EXCEPT !.lc[c.cell_num].val = value])])

\* ---------------------------------------------------------- command layer
\* What a command returns: the machine it leaves, Ok or the error, and the rows.
Result(m, out) ==
    [m |-> m, res |-> IF IsOk(m) THEN "Ok" ELSE m.st, out |-> IF IsOk(m) THEN out ELSE <<>>]

Fail(m, err) == Result([m EXCEPT !.st = IF IsOk(m) THEN err ELSE @], <<>>)

\* Statement::execute, Insert
ExecInsert(m, id, data) ==
    Let([c \in {Find(m, id)} |->
    Let([k \in {CheckKey(c, id)} |->
        IF ~IsOk(k.m) THEN Result(k.m, <<>>)
        ELSE IF k.v THEN Fail(k.m, "DuplicateKey")
        ELSE Let([m1 \in {CursorInsert(On(c, k.m), id, Serialize(id, data))} |->
                Result(m1, <<Serialize(id, data)>>)])])])

\* Statement::execute, Update
ExecUpdate(m, id, data) ==
    Let([c \in {Find(m, id)} |->
    Let([k \in {CheckKey(c, id)} |->
        IF ~IsOk(k.m) THEN Result(k.m, <<>>)
        ELSE IF ~k.v THEN Fail(k.m, "NoData")
        ELSE Let([m1 \in {CursorUpdate(On(c, k.m), Serialize(id, data))} |->
                Result(m1, <<Serialize(id, data)>>)])])])

\* Statement::execute, Select
ExecSelect(m, i) ==
    Let([c \in {Find(m, i)} |->
    Let([k \in {CheckKey(c, i)} |->
        IF ~IsOk(k.m) THEN Result(k.m, <<>>)
        ELSE IF ~k.v THEN Fail(k.m, "NoData")
        ELSE Result(k.m, <<Pg(k.m, c.page_num).lc[c.cell_num].val>>)])])

\* A scan that has returned more rows than the pages can hold cells is going
\* round a cycle of next_leaf links: the program never returns from it.
MaxScan == LEAF_NODE_MAX_CELLS * PageBudget

\* The loop of Statement::execute, SelectAll
RECURSIVE ScanLoop(_, _)
ScanLoop(c, out) ==
    IF ~IsOk(c.m) THEN Result(c.m, <<>>)
    ELSE IF c.end_of_table THEN Result(c.m, out)
    ELSE IF Len(out) >= MaxScan THEN Result([c.m EXCEPT !.st = "hang"], <<>>)
    ELSE Let([m1 \in {LeafView(c.m, c.page_num)} |->
            IF ~IsOk(m1) THEN Result(m1, <<>>)
            ELSE Let([n \in {Advance(On(c, m1))} |->
                    ScanLoop(n, Append(out, Pg(m1, c.page_num).lc[c.cell_num].val))])])

\* Statement::execute, SelectAll
ExecSelectAll(m) == Let([c \in {Start(m)} |-> ScanLoop(c, <<>>)])

\* Delete without the test of the key: whatever cell find stands on goes.
ExecDeleteUnchecked(m, i) ==
    Let([c \in {Find(m, i)} |->
    Let([m1 \in {CursorRemove(c)} |-> Result(m1, <<>>)])])

\* Statement::execute, Delete
ExecDelete(m, i) ==
    Let([c \in {Find(m, i)} |->
    Let([k \in {CheckKey(c, i)} |->
        IF ~IsOk(k.m) THEN Result(k.m, <<>>)
        ELSE IF ~k.v THEN Fail(k.m, "NoData")
        ELSE Let([m1 \in {CursorRemove(On(c, k.m))} |-> Result(m1, <<>>)])])])

\* ------------------------------------------------------------- sessions
NoPages == [p \in {} |-> ZeroPage]
NoRows == [k \in LongKeys |-> 0]
Cmd(cmd, key, val, res) == [cmd |-> cmd, key |-> key, val |-> val, res |-> res]

\* Pager::init_db
InitDb(m) ==
    Let([m1 \in {NodeAt(m, META_NODE_NUM)} |->
    Let([m3 \in {NodeAt(PutPage(m1, META_NODE_NUM, InitMetaPage(Pg(m1, META_NODE_NUM))),
                        DEFAULT_ROOT_NUM)} |->
        PutPage(m3, DEFAULT_ROOT_NUM,
                [InitLeafPage(Pg(m3, DEFAULT_ROOT_NUM)) EXCEPT !.is_root = 1])])])

\* Pager::open running init_db whatever the file holds.
PagerOpenAlways(n) == InitDb(Machine(NoPages, n))

\* Pager::open on a file of n pages whose pages all read as ZeroPage until
\* file_length is set: init_db runs on an empty file only, where every page
\* it touches is beyond the file.
PagerOpen(n) == IF n = 0 THEN InitDb(Machine(NoPages, 0)) ELSE Machine(NoPages, n)

\* Pager::open taking the whole pages of a file of any length.
PagerOpenAnyLength(len) == PagerOpen(len \div PAGE_SIZE)

\* Pager::open on a file of len bytes: Err(CorruptFile) unless len is a whole
\* number of pages.
PagerOpenBytes(len) ==
    IF len % PAGE_SIZE # 0 THEN [Machine(NoPages, 0) EXCEPT !.st = "CorruptFile"]
    ELSE PagerOpen(len \div PAGE_SIZE)

\* The file after a close that drops the cached pages without Pager::flush.
Unflushed == file

\* The file after Table::close: Pager::flush writes every cached page below
\* num_pages at its offset; a write beyond the end leaves zeroes in between.
Flushed ==
    Let([cached \in {{p \in DOMAIN pages : p < num_pages}} |->
    Let([top \in {IF cached = {} THEN 0
                  ELSE (CHOOSE p \in cached : \A q \in cached : q <= p) + 1} |->
        [i \in 1..(IF top > Len(file) THEN top ELSE Len(file)) |->
            IF (i - 1) \in cached THEN pages[i - 1]
            ELSE IF i <= Len(file) THEN file[i] ELSE ZeroPage]])])

\* Table::close writing all but the last byte of the last page.
FlushedBytesShort(len, p) ==
    IF DOMAIN pages = {} THEN len
    ELSE Let([end \in {((CHOOSE q \in DOMAIN pages : \A r \in DOMAIN pages : r <= q) + 1)
                        * PAGE_SIZE - 1} |->
             IF end > len THEN end ELSE len])

\* The length of the file after Table::close: each Pager::flush seeks to the
\* offset of its page and writes PAGE_SIZE bytes, which lengthens the file
\* where the write ends beyond its end.
RECURSIVE FlushedBytes(_, _)
FlushedBytes(len, p) ==
    IF p >= num_pages THEN len
    ELSE IF p \in DOMAIN pages /\ p * PAGE_SIZE + PAGE_SIZE > len
    THEN FlushedBytes(p * PAGE_SIZE + PAGE_SIZE, p + 1)
    ELSE FlushedBytes(len, p + 1)

\* The state in which the program is: the machine of the running session.
M == Machine(pages, num_pages)

\* A command that also writes the metadata page through to the file.
FinishWriteThrough(r, cmd, key, val) ==
    IF r.res \in {"panic", "hang"}
    THEN /\ alive' = FALSE
         /\ pages' = NoPages
         /\ num_pages' = 0
         /\ file_length' = 0
         /\ last' = Cmd(cmd, key, val, r.res)
         /\ done' = done \cup {"failed"}
         /\ UNCHANGED <<file, file_bytes, rows, ops>>
    ELSE IF r.m.pages = pages /\ r.m.num_pages = num_pages
    THEN UNCHANGED vars
    ELSE /\ pages' = r.m.pages
         /\ num_pages' = r.m.num_pages
         /\ last' = Cmd(cmd, key, val, r.res)
         /\ done' = done \cup {IF r.res # "Ok" THEN "failed"
                               ELSE IF cmd = "insert" /\ rows[key] # 0 THEN "reinsert"
                               ELSE cmd}
         /\ rows' = IF r.res # "Ok" THEN rows
                    ELSE IF cmd \in {"insert", "update"} THEN [rows EXCEPT ![key] = val]
                    ELSE IF cmd = "delete" THEN [rows EXCEPT ![key] = 0]
                    ELSE rows
         /\ ops' = IF cmd \in {"insert", "update", "delete"} THEN ops + 1 ELSE ops
         /\ file' = [i \in 1..(IF Len(file) = 0 THEN 1 ELSE Len(file)) |->
                        IF i = 1 THEN r.m.pages[META_NODE_NUM] ELSE file[i]]
         /\ file_bytes' = IF file_bytes < PAGE_SIZE THEN PAGE_SIZE ELSE file_bytes
         /\ UNCHANGED <<file_length, alive>>

\* A command has run to r.  The session goes on with the machine it leaves, or
\* is over where the program panicked or never returns.  last and done record
\* the commands that changed the state of the program: a read, or a command
\* refused with the pages as they were, leaves every variable as it is.
\* rows is the table a reader of the commands expects: the value last written
\* under each key, 0 for none.  An insert that succeeds on a key rows already
\* holds is recorded in done as "reinsert".
Finish(r, cmd, key, val) ==
    IF r.res \in {"panic", "hang"}
    THEN /\ alive' = FALSE
         /\ pages' = NoPages
         /\ num_pages' = 0
         /\ file_length' = 0
         /\ last' = Cmd(cmd, key, val, r.res)
         /\ done' = done \cup {"failed"}
         /\ UNCHANGED <<file, file_bytes, rows, ops>>
    ELSE IF r.m.pages = pages /\ r.m.num_pages = num_pages
    THEN UNCHANGED vars
    ELSE /\ pages' = r.m.pages
         /\ num_pages' = r.m.num_pages
         /\ last' = Cmd(cmd, key, val, r.res)
         /\ done' = done \cup {IF r.res # "Ok" THEN "failed"
                               ELSE IF cmd = "insert" /\ rows[key] # 0 THEN "reinsert"
                               ELSE cmd}
         /\ rows' = IF r.res # "Ok" THEN rows
                    ELSE IF cmd \in {"insert", "update"} THEN [rows EXCEPT ![key] = val]
                    ELSE IF cmd = "delete" THEN [rows EXCEPT ![key] = 0]
                    ELSE rows
         /\ ops' = IF cmd \in {"insert", "update", "delete"} THEN ops + 1 ELSE ops
         /\ UNCHANGED <<file, file_bytes, file_length, alive>>

Crashed == last.res \in {"panic", "hang"}

\* "insert <id> <name> <email>"
Insert(k, v) ==
    /\ alive
    /\ \E r \in {ExecInsert(M, k, v)} : Finish(r, "insert", k, v)

\* "update <id> <name> <email>"
Update(k, v) ==
    /\ alive
    /\ \E r \in {ExecUpdate(M, k, v)} : Finish(r, "update", k, v)

\* "delete <id>"
Delete(k) ==
    /\ alive
    /\ \E r \in {ExecDelete(M, k)} : Finish(r, "delete", k, 0)

\* "select <id>"
Select(k) ==
    /\ alive
    /\ \E r \in {ExecSelect(M, k)} : Finish(r, "select", k, 0)

\* "select"
SelectAll ==
    /\ alive
    /\ \E r \in {ExecSelectAll(M)} : Finish(r, "selectall", 0, 0)

\* What Table::close comes to: its loop runs i over 0..num_pages and indexes
\* the MAX_PAGES slots of the cache with it, which panics at i = MAX_PAGES,
\* after the pages below are flushed and dropped.
Closed == IF num_pages > MAX_PAGES THEN "panic" ELSE "Ok"

\* ".exit": Table::close, then the process ends.
Exit ==
    /\ alive
    /\ file' = Flushed
    /\ file_bytes' = FlushedBytes(file_bytes, 0)
    /\ alive' = FALSE
    /\ pages' = NoPages
    /\ num_pages' = 0
    /\ file_length' = 0
    /\ last' = Cmd("exit", 0, 0, Closed)
    /\ done' = done \cup {"exit"}
    /\ UNCHANGED <<rows, ops>>

\* Pager::node called on page p of the table's pager.
Get(p) ==
    /\ alive
    /\ \E m \in {NodeAt(M, p)} :
          /\ pages' = m.pages
          /\ num_pages' = m.num_pages
          /\ last' = Cmd("get", p, 0, IF IsOk(m) THEN "Ok" ELSE m.st)
    /\ done' = done \cup {"get"}
    /\ UNCHANGED <<file, file_bytes, file_length, alive, rows, ops>>

\* Table::close on a table that stays in use: every cached page is flushed
\* and dropped; file_length and num_pages stay what they were.  The process
\* is over where the loop panics.
Close ==
    /\ alive
    /\ file' = Flushed
    /\ file_bytes' = FlushedBytes(file_bytes, 0)
    /\ pages' = NoPages
    /\ last' = Cmd("close", 0, 0, Closed)
    /\ done' = done \cup {"close"}
    /\ alive' = (Closed = "Ok")
    /\ num_pages' = IF Closed = "Ok" THEN num_pages ELSE 0
    /\ file_length' = IF Closed = "Ok" THEN file_length ELSE 0
    /\ UNCHANGED <<rows, ops>>

\* Table::open on the file as it is: the process starts, and ends at once on
\* the unwrap of Err(CorruptFile).
Open ==
    /\ ~alive
    /\ ~Crashed
    /\ \E m \in {PagerOpenBytes(file_bytes)} :
          IF IsOk(m)
          THEN /\ pages' = m.pages
               /\ num_pages' = m.num_pages
               /\ file_length' = file_bytes
               /\ alive' = TRUE
               /\ last' = Cmd("open", 0, 0, "Ok")
               /\ UNCHANGED <<file, file_bytes, rows, done, ops>>
          ELSE /\ last' = Cmd("open", 0, 0, m.st)
               /\ UNCHANGED <<file, file_bytes, file_length, num_pages, pages, alive,
                              rows, done, ops>>

\* Table::open on a file that does not exist yet.
Init ==
    /\ file = <<>>
    /\ file_bytes = 0
    /\ file_length = 0
    /\ pages = PagerOpen(0).pages
    /\ num_pages = PagerOpen(0).num_pages
    /\ alive = TRUE
    /\ rows = NoRows
    /\ done = {}
    /\ ops = 0
    /\ last = Cmd("open", 0, 0, "Ok")

\* The program not started yet, on a file it finds: no file, the file of an
\* empty table or its metadata page alone, or the file of an empty table with
\* zero pages behind it up to one page more than MAX_PAGES, each whole, or
\* with a byte or all but a byte of one more page behind it.
Tails == {0, 1, PAGE_SIZE - 1}
EmptyDb == <<PagerOpen(0).pages[META_NODE_NUM], PagerOpen(0).pages[DEFAULT_ROOT_NUM]>>
LongFile == [i \in 1..(MAX_PAGES + 1) |-> IF i <= Len(EmptyDb) THEN EmptyDb[i] ELSE ZeroPage]

InitFiles ==
    /\ file_length = 0
    /\ file \in {<<>>, <<EmptyDb[1]>>, EmptyDb, LongFile}
    /\ file_bytes \in {Len(file) * PAGE_SIZE + t : t \in Tails}
    /\ pages = NoPages
    /\ num_pages = 0
    /\ alive = FALSE
    /\ rows = NoRows
    /\ done = {}
    /\ ops = 0
    /\ last = Cmd("none", 0, 0, "Ok")

\* The bounds of a run: at most maxops commands change the table, and none
\* of them takes the file beyond budget pages.
Within(maxops, budget) == ops < maxops /\ num_pages' <= budget

\* One session of commands on a new table.
Next ==
    \/ \E k \in FewKeys, v \in Vals : Insert(k, v) /\ Within(MaxOps, PageBudget)
    \/ \E k \in FewKeys, v \in Vals : Update(k, v) /\ Within(MaxOps, PageBudget)
    \/ \E k \in FewKeys : Delete(k) /\ Within(MaxOps, PageBudget)
    \/ \E k \in FewKeys : Select(k)
    \/ SelectAll

Spec == Init /\ [][Next]_vars

\* ------------------------------------------------------------ workloads
\* Longer sessions on fewer keys and one value: deletes that merge leaves and
\* collapse the root.
MaxOpsDeep == 10

NextDeep ==
    \/ \E k \in DeepKeys : Insert(k, 1) /\ Within(MaxOpsDeep, PageBudget)
    \/ \E k \in DeepKeys : Delete(k) /\ Within(MaxOpsDeep, PageBudget)
    \/ \E k \in DeepKeys : Select(k)
    \/ SelectAll

SpecDeep == Init /\ [][NextDeep]_vars

\* Sessions that grow the tree to three levels: inserts until the root has
\* been split as an internal node (the file then has TallPages pages), and
\* deletes from there on.
MaxOpsTall == 18
TallBudget == 11
TallPages == 10

NextTall ==
    \/ \E k \in FewKeys : Insert(k, 1) /\ Within(MaxOpsTall, TallBudget)
    \/ \E k \in FewKeys : num_pages >= TallPages /\ Delete(k) /\ Within(MaxOpsTall, TallBudget)
    \/ \E k \in FewKeys : Select(k)

SpecTall == Init /\ [][NextTall]_vars

\* Inserts alone, on enough keys for three leaves of distinct keys.
MaxOpsWide == 7

NextWide ==
    \/ \E k \in Keys : Insert(k, 1) /\ Within(MaxOpsWide, PageBudget)
    \/ \E k \in Keys : Select(k)
    \/ SelectAll

SpecWide == Init /\ [][NextWide]_vars

\* Sessions on one file: inserts and selects, ".exit", and the next start of
\* the program on the file the last one left.
MaxOpsSessions == 5

NextSessions ==
    \/ \E k \in DeepKeys, v \in Vals : Insert(k, v) /\ Within(MaxOpsSessions, PageBudget)
    \/ \E k \in DeepKeys : Select(k)
    \/ Exit
    \/ Open

SpecSessions == Init /\ [][NextSessions]_vars

\* Sessions in which Table::close is also called on a table that stays in
\* use.
MaxOpsClose == 5

NextClose ==
    \/ \E k \in DeepKeys : Insert(k, 1) /\ Within(MaxOpsClose, PageBudget)
    \/ \E k \in DeepKeys : Select(k)
    \/ Close
    \/ Exit
    \/ Open

SpecClose == Init /\ [][NextClose]_vars

\* The pager's own operations on the pages at the end of its range, among
\* inserts, closes and new sessions.
MaxOpsPager == 5
PagerPages == {2, MAX_PAGES - 1, MAX_PAGES, MAX_PAGES + 1}

NextPager ==
    \/ \E p \in PagerPages : Get(p)
    \/ \E k \in DeepKeys : Insert(k, 1) /\ Within(MaxOpsPager, MAX_PAGES)
    \/ Exit
    \/ Open

SpecPager == Init /\ [][NextPager]_vars

\* The program started on the files it may find, and what it does to them.
MaxOpsFiles == 5

NextFiles ==
    \/ Open
    \/ \E k \in DeepKeys : Insert(k, 1) /\ Within(MaxOpsFiles, MAX_PAGES + 1)
    \/ \E k \in DeepKeys : Select(k)
    \/ Get(MAX_PAGES)
    \/ Exit

SpecFiles == InitFiles /\ [][NextFiles]_vars

\* Keys never used before, in ascending order, until the tree has three
\* levels, and deletes once it has three leaves: the key of an insert is the
\* number of commands that changed the table so far.
MaxOpsLong == 19
LongBudget == 14
LongPages == 7

NextLong ==
    \/ \E k \in LongKeys : k = ops /\ Insert(k, 1) /\ Within(MaxOpsLong, LongBudget)
    \/ \E k \in LongKeys : num_pages >= LongPages /\ Delete(k) /\ Within(MaxOpsLong, LongBudget)
    \/ \E k \in LongKeys : Select(k)

SpecLong == Init /\ [][NextLong]_vars

\* ------------------------------------------------------ reading a state
\* Key k is in the table the commands so far describe.
Present(k) == rows[k] # 0

\* Page p as the program would read it now: from the cache, else from the file.
Page(p) == IF p \in DOMAIN pages THEN pages[p] ELSE LoadPage(p)

\* The root page number the meta page holds.
RootNum == GetRootNumPage(Page(META_NODE_NUM))

\* The children of an internal page: those of its entries and its right child.
Kids(pg) == {pg.ic[i].child : i \in 0..(pg.num - 1)} \cup {pg.right_child}

\* The depths at which leaves are reached from page p, itself at depth d;
\* -1 where the descent does not end within fuel levels.
RECURSIVE Depths(_, _, _)
Depths(p, d, fuel) ==
    IF fuel = 0 THEN {-1}
    ELSE IF Page(p).type = NodeLeaf THEN {d}
    ELSE UNION {Depths(c, d + 1, fuel - 1) : c \in Kids(Page(p))}

\* The pages reached from page p through child pointers.
RECURSIVE Nodes(_, _)
Nodes(p, fuel) ==
    IF fuel = 0 \/ Page(p).type = NodeLeaf THEN {p}
    ELSE {p} \cup UNION {Nodes(c, fuel - 1) : c \in Kids(Page(p))}

\* The first key of the subtree of page p, -1 if it has none.
RECURSIVE FirstKey(_, _)
FirstKey(p, fuel) ==
    IF fuel = 0 THEN -1
    ELSE IF Page(p).type = NodeLeaf
    THEN (IF Page(p).num = 0 THEN -1 ELSE Page(p).lc[0].key)
    ELSE FirstKey(Page(p).ic[0].child, fuel - 1)

\* Key k is held by a cell of a leaf of the tree.
Stored(k) ==
    \E p \in Nodes(RootNum, MaxDepth) :
        /\ Page(p).type = NodeLeaf
        /\ \E i \in 0..(Page(p).num - 1) : Page(p).lc[i].key = k

\* Command result r is NoData and leaves the pages and their number as they are.
Refused(r) == r.res = "NoData" /\ r.m.pages = pages /\ r.m.num_pages = num_pages

\* Select k returns exactly the row rows holds for k.
Selects(m, k) ==
    \A r \in {ExecSelect(m, k)} : r.res = "Ok" /\ r.out = <<Serialize(k, rows[k])>>

\* ------------------------------------------------------------- properties
\* C1: after successful inserts of distinct keys into an empty table, select k
\* returns, for every inserted key k, exactly one row with key k and the
\* value supplied at insert.
C1_SelectFindsInserted ==
    (alive /\ done \subseteq {"insert"}) => \A k \in Keys : Present(k) => Selects(M, k)

\* C2: after successful inserts and deletes, select without a key returns
\* exactly the keys in the table, each once, in strictly ascending order;
\* no rows on an empty table.
C2_ScanIsTheTable ==
    (alive /\ done \subseteq {"insert", "delete"}) =>
        \A r \in {ExecSelectAll(M)} :
            /\ r.res = "Ok"
            /\ \A i \in 1..(Len(r.out) - 1) : r.out[i].id < r.out[i + 1].id
            /\ {r.out[i].id : i \in 1..Len(r.out)} = {k \in Keys : Present(k)}

\* C3: after delete k succeeds, select k fails with NoData and every other key
\* present before the delete is still returned by select with its value.
C3_DeleteRemovesOnlyItsKey ==
    (alive /\ done \subseteq {"insert", "delete"} /\ last.cmd = "delete" /\ last.res = "Ok") =>
        /\ ExecSelect(M, last.key).res = "NoData"
        /\ \A k \in Keys \ {last.key} : Present(k) => Selects(M, k)

\* C4: insert k for a key k in the table fails with DuplicateKey and changes
\* no page buffer, nor the root page number, nor num_pages.
C4_DuplicateRefused ==
    (alive /\ done \subseteq {"insert"}) =>
        \A k \in Keys, v \in Vals : Present(k) =>
            \A r \in {ExecInsert(M, k, v)} :
                r.res = "DuplicateKey" /\ r.m.pages = pages /\ r.m.num_pages = num_pages

C5_AbsentKeyRefused ==
    alive => \A k \in Keys : ~Present(k) =>
        /\ Refused(ExecSelect(M, k))
        /\ Refused(ExecDelete(M, k))
        /\ \A v \in Vals : Refused(ExecUpdate(M, k, v))

\* C6: update k with a new value on a key k in the table succeeds, and a
\* following select k returns the new value.
C6_UpdateThenSelect ==
    (alive /\ done \subseteq {"insert"}) =>
        \A k \in Keys, v \in Vals : Present(k) =>
            \A r \in {ExecUpdate(M, k, v)} :
                r.res = "Ok" /\ ExecSelect(r.m, k).out = <<Serialize(k, v)>>

\* C7: after successful inserts, a close and a reopening of the file, select k
\* returns the value inserted for every key inserted before the close, and
\* fails with NoData for every key never inserted.
C7_ReopenKeepsRows ==
    (alive /\ done \subseteq {"insert", "exit"} /\ "exit" \in done) =>
        \A k \in Keys :
            IF Present(k) THEN Selects(M, k) ELSE ExecSelect(M, k).res = "NoData"

\* C8: after every completed insert or delete, from an empty table on, all
\* leaves reached from the root are at one depth.
C8_LeavesAtOneDepth ==
    alive => Cardinality(Depths(RootNum, 0, MaxDepth)) = 1 /\ -1 \notin Depths(RootNum, 0, MaxDepth)

\* C8, a state in which it says something: a delete has completed on a tree
\* of three levels.
C8_Witness ==
    /\ alive
    /\ last.cmd = "delete" /\ last.res = "Ok"
    /\ Page(RootNum).type = NodeInternal
    /\ Page(Page(RootNum).ic[0].child).type = NodeInternal
    /\ Depths(RootNum, 0, MaxDepth) = {2}

\* C9: after every completed insert or delete, the keys of every leaf are
\* strictly ascending over its cells, and the separator keys of every
\* internal node are strictly ascending over its entries.
C9_KeysAscend ==
    (alive /\ done \subseteq {"insert", "delete"}) =>
        \A p \in Nodes(RootNum, MaxDepth) :
            \A i \in 0..(Page(p).num - 2) :
                IF Page(p).type = NodeLeaf
                THEN Page(p).lc[i].key < Page(p).lc[i + 1].key
                ELSE Page(p).ic[i].key < Page(p).ic[i + 1].key

\* C10: after every completed insert or delete, each separator i of every
\* internal node is the first key of the subtree of child i.
C10_SeparatorIsFirstKey ==
    (alive /\ done \subseteq {"insert", "delete"}) =>
        \A p \in Nodes(RootNum, MaxDepth) :
            Page(p).type = NodeInternal =>
                \A i \in 0..(Page(p).num - 1) :
                    Page(p).ic[i].key = FirstKey(Page(p).ic[i].child, MaxDepth)

\* The leaf Table::start stands on: the first child, level by level, from
\* page p; -1 where the descent does not end within fuel levels.
RECURSIVE LeftmostLeaf(_, _)
LeftmostLeaf(p, fuel) ==
    IF fuel = 0 THEN -1
    ELSE IF Page(p).type = NodeLeaf THEN p
    ELSE LeftmostLeaf(Page(p).ic[0].child, fuel - 1)

\* The pages next_leaf leads over from leaf p, p first, up to the leaf whose
\* next_leaf is 0 or up to fuel pages.
RECURSIVE Chain(_, _)
Chain(p, fuel) ==
    IF fuel = 0 THEN <<>>
    ELSE IF Page(p).next_leaf = 0 THEN <<p>>
    ELSE <<p>> \o Chain(Page(p).next_leaf, fuel - 1)

\* The leaves of the tree.
Leaves == {p \in Nodes(RootNum, MaxDepth) : Page(p).type = NodeLeaf}

\* The keys of the cells of leaf p.
LeafKeys(p) == {Page(p).lc[i].key : i \in 0..(Page(p).num - 1)}

\* The chain of leaves from the leftmost leaf of the tree.
LeafChain == Chain(LeftmostLeaf(RootNum, MaxDepth), MAX_PAGES)

\* The chain visits every leaf of the tree exactly once and ends at a leaf
\* whose next_leaf is 0.
ChainCoversLeaves ==
    /\ {LeafChain[i] : i \in 1..Len(LeafChain)} = Leaves
    /\ Len(LeafChain) = Cardinality(Leaves)
    /\ Page(LeafChain[Len(LeafChain)]).next_leaf = 0

\* Every key of a leaf of the chain is smaller than every key of the next.
ChainAscends ==
    \A i \in 1..(Len(LeafChain) - 1) :
        \A a \in LeafKeys(LeafChain[i]) : \A b \in LeafKeys(LeafChain[i + 1]) : a < b

\* C11: after every completed insert or delete, following next_leaf from the
\* leftmost leaf visits every leaf of the tree exactly once, in ascending
\* key order, and ends at a leaf whose next_leaf is 0.
C11_LeafChain ==
    (alive /\ done \subseteq {"insert", "delete"}) =>
        ChainCoversLeaves /\ ChainAscends

\* C12: for every node of the tree but the root, the parent field is the
\* page number of an internal node of the tree that lists the node among
\* its children.
C12_ParentListsChild ==
    (alive /\ done \subseteq {"insert", "delete"}) =>
        \A p \in Nodes(RootNum, MaxDepth) \ {RootNum} :
            /\ Page(p).parent \in Nodes(RootNum, MaxDepth)
            /\ Page(Page(p).parent).type = NodeInternal
            /\ p \in Kids(Page(Page(p).parent))

\* The nodes of the tree whose is_root flag is set.
RootFlagged == {p \in Nodes(RootNum, MaxDepth) : Page(p).is_root # 0}

\* C13: after every completed open, insert or delete, exactly one node of
\* the tree has is_root set, and it is the page whose number the metadata
\* page holds.
C13_OneRoot ==
    (alive /\ done \subseteq {"insert", "delete", "exit"}) => RootFlagged = {RootNum}

\* C13, a state in which it says something: a delete has emptied the
\* internal root a split had made, and the root has taken over its one child.
C13_Witness ==
    /\ alive
    /\ done \subseteq {"insert", "delete"}
    /\ last.cmd = "delete" /\ last.res = "Ok"
    /\ num_pages >= 4
    /\ Page(RootNum).type = NodeLeaf

\* C14: every leaf of the tree holds at most LEAF_NODE_MAX_CELLS cells, and
\* every leaf but a root leaf holds at least LEAF_NODE_RIGHT_SPLIT_COUNT.
C14_LeafOccupancy ==
    (alive /\ done \subseteq {"insert", "delete"}) =>
        \A p \in Leaves :
            /\ Page(p).num <= LEAF_NODE_MAX_CELLS
            /\ p # RootNum => Page(p).num >= LEAF_NODE_RIGHT_SPLIT_COUNT

\* C15: every internal node of the tree holds at most INTERNAL_NODE_MAX_CELLS
\* keys, and every internal node but the root holds at least
\* INTERNAL_NODE_RIGHT_SPLIT_COUNT.
C15_InternalOccupancy ==
    (alive /\ done \subseteq {"insert", "delete"}) =>
        \A p \in Nodes(RootNum, MaxDepth) :
            Page(p).type = NodeInternal =>
                /\ Page(p).num <= INTERNAL_NODE_MAX_CELLS
                /\ p # RootNum => Page(p).num >= INTERNAL_NODE_RIGHT_SPLIT_COUNT

\* C15, a state in which it says something: a delete has completed on a tree
\* whose root has internal nodes for children.
C15_Witness ==
    /\ alive
    /\ done \subseteq {"insert", "delete"}
    /\ last.cmd = "delete" /\ last.res = "Ok"
    /\ Page(RootNum).type = NodeInternal
    /\ \E p \in Kids(Page(RootNum)) : Page(p).type = NodeInternal

\* C16: after every completed delete, every internal node of the tree, the
\* root included, has at least two children: an internal root left with one
\* child has been replaced by that child, which is marked is_root and is
\* the page the metadata page names.
C16_TwoChildren ==
    (alive /\ done \subseteq {"insert", "delete"} /\ last.cmd = "delete" /\ last.res = "Ok") =>
        /\ \A p \in Nodes(RootNum, MaxDepth) :
              Page(p).type = NodeInternal =>
                  Page(p).num >= 1 /\ Cardinality(Kids(Page(p))) >= 2
        /\ Page(RootNum).is_root = 1

\* C16, a state in which it says something: a delete has merged the two
\* leaves of an internal root, and the merged leaf is the root.
C16_Witness ==
    /\ alive
    /\ done \subseteq {"insert", "delete"}
    /\ last.cmd = "delete" /\ last.res = "Ok"
    /\ num_pages >= 4
    /\ Page(RootNum).type = NodeLeaf
    /\ Page(RootNum).num >= LEAF_NODE_RIGHT_SPLIT_COUNT
    /\ Page(RootNum).is_root = 1

\* A step of Table::close, with the process going on or ending.
ClosingStep == last'.cmd \in {"close", "exit"}

\* C17: immediately after close no page is cached, and every page cached
\* just before close is in the file, at its offset, as its buffer was at
\* close.
C17_CloseFlushesAndEvicts ==
    [][ClosingStep =>
          /\ pages' = NoPages
          /\ \A p \in DOMAIN pages : p + 1 <= Len(file') /\ file'[p + 1] = pages[p]]_vars

\* C17, a state in which it says something: close has written the pages of
\* a tree of two leaves to a file that did not hold them.
C17_Witness ==
    /\ last.cmd \in {"close", "exit"}
    /\ pages = NoPages
    /\ Len(file) >= 4
    /\ file[DEFAULT_ROOT_NUM + 1].type = NodeInternal

\* C18: a page that is not cached is read from the file at its offset
\* whenever the file holds it, pages created in the session and written by
\* close included.
C18_MissReadsFile ==
    alive => \A p \in 0..(Len(file) - 1) :
                 p \notin DOMAIN pages => Pg(NodeAt(M, p), p) = file[p + 1]

\* C19: no step other than close changes the file.
C19_OnlyCloseWrites ==
    [][~ClosingStep => file' = file]_vars

\* C19, a state in which it says something: a session on a file a close has
\* written has split the root, and the file is as the close left it.
C19_Witness ==
    /\ alive
    /\ last.cmd = "insert" /\ last.res = "Ok"
    /\ Len(file) = 2
    /\ num_pages >= 4
    /\ pages[DEFAULT_ROOT_NUM] # file[DEFAULT_ROOT_NUM + 1]

\* The page number the next new node gets is greater than the number of
\* every page in use, is not the metadata page's nor that of a node of the
\* tree, and the number handed out after it is greater again.
FreshPageNumber ==
    /\ \A p \in DOMAIN pages : p < NewPageNum(M)
    /\ NewPageNum(M) # META_NODE_NUM
    /\ NewPageNum(M) \notin Nodes(RootNum, MaxDepth)
    /\ NewPageNum(NodeAt(M, NewPageNum(M))) > NewPageNum(M)

\* C20: within a session, the page number given to a new node is greater
\* than every page number given out before and is neither the metadata
\* page's nor an existing node's, so that no two nodes are on one page.
C20_FreshPages ==
    [][(alive /\ alive') =>
          /\ FreshPageNumber
          /\ FreshPageNumber'
          /\ num_pages' >= num_pages]_vars

\* C20, a state in which it says something: an insert has split a leaf and
\* the internal root above it, and made a new root, on three new pages.
C20_Witness ==
    /\ alive
    /\ done \subseteq {"insert", "delete"}
    /\ last.cmd = "insert" /\ last.res = "Ok"
    /\ Page(RootNum).type = NodeInternal
    /\ \A p \in Kids(Page(RootNum)) : Page(p).type = NodeInternal
    /\ num_pages >= TallPages

\* C21: Pager::node on a page number of MAX_PAGES or more fails with
\* TableFull and leaves the cache and num_pages as they were, and num_pages
\* never exceeds MAX_PAGES.
C21_TableFullBeyondMaxPages ==
    [][/\ (last'.cmd = "get" /\ last'.key >= MAX_PAGES) =>
              (last'.res = "TableFull" /\ pages' = pages /\ num_pages' = num_pages)
       /\ num_pages' <= MAX_PAGES]_vars

\* C22: Pager::open on an empty or new file leaves page 0 as the metadata
\* page naming root page 1, page 1 as an empty leaf (no cells, next_leaf 0)
\* marked root, and num_pages = 2; on a file that is not empty it initializes
\* nothing and changes no page, in the cache or in the file.
C22_OpenInitializesEmptyFileOnly ==
    [][(~alive /\ alive') =>
          IF file_bytes = 0
          THEN /\ DOMAIN pages' = {META_NODE_NUM, DEFAULT_ROOT_NUM}
               /\ GetRootNumPage(pages'[META_NODE_NUM]) = 1
               /\ pages'[DEFAULT_ROOT_NUM].type = NodeLeaf
               /\ pages'[DEFAULT_ROOT_NUM].num = 0
               /\ pages'[DEFAULT_ROOT_NUM].next_leaf = 0
               /\ pages'[DEFAULT_ROOT_NUM].is_root = 1
               /\ num_pages' = 2
          ELSE /\ pages' = NoPages
               /\ file' = file
               /\ file_bytes' = file_bytes]_vars

\* C22, a state in which it says something: a session opened on a file that
\* holds a tree of two leaves, with nothing cached yet.
C22_Witness ==
    /\ alive
    /\ last.cmd = "open"
    /\ pages = NoPages
    /\ num_pages >= 4
    /\ file[DEFAULT_ROOT_NUM + 1].type = NodeInternal

\* C23: Pager::open on a file whose length is not a multiple of PAGE_SIZE
\* fails with CorruptFile, creating no page and writing nothing to the file;
\* on any other length it succeeds, with num_pages = file_length / PAGE_SIZE
\* where the file is not empty and with the two pages of init_db where it is.
C23_OpenChecksLength ==
    [][~alive =>
          IF file_bytes % PAGE_SIZE # 0
          THEN /\ last' = Cmd("open", 0, 0, "CorruptFile")
               /\ ~alive'
               /\ pages' = NoPages
               /\ file' = file
               /\ file_bytes' = file_bytes
          ELSE /\ last' = Cmd("open", 0, 0, "Ok")
               /\ alive'
               /\ file_length' = file_bytes
               /\ num_pages' = IF file_bytes = 0 THEN 2 ELSE file_bytes \div PAGE_SIZE]_vars

\* C23 as stated: num_pages = file_length / PAGE_SIZE after every open that
\* succeeds, that of an empty file included.
C23_AsStated ==
    [][~alive =>
          IF file_bytes % PAGE_SIZE # 0
          THEN /\ last' = Cmd("open", 0, 0, "CorruptFile")
               /\ ~alive'
               /\ pages' = NoPages
               /\ file' = file
               /\ file_bytes' = file_bytes
          ELSE /\ last' = Cmd("open", 0, 0, "Ok")
               /\ alive'
               /\ num_pages' = file_bytes \div PAGE_SIZE]_vars

\* C23, a state in which it says something: the program has ended on
\* CorruptFile, on a file of two pages and a byte.
C23_Witness ==
    /\ ~alive
    /\ last = Cmd("open", 0, 0, "CorruptFile")
    /\ file_bytes = 2 * PAGE_SIZE + 1
    /\ pages = NoPages

\* C24: once the program has opened the file, the length of the file is a
\* multiple of PAGE_SIZE (the pages it holds, whole) in every state, through
\* every command, Table::close and reopening, and no opening of a file that
\* Table::close has written ends in CorruptFile.
C24_FileLengthAligned ==
    /\ (alive \/ done # {}) =>
          /\ file_bytes % PAGE_SIZE = 0
          /\ file_bytes = Len(file) * PAGE_SIZE
    /\ last.res = "CorruptFile" => done = {}

\* C24, a state in which it says something: a session reopened on a file that
\* Table::close lengthened to MAX_PAGES pages by writing its last page only.
C24_Witness ==
    /\ alive
    /\ last = Cmd("open", 0, 0, "Ok")
    /\ "exit" \in done
    /\ file_length = MAX_PAGES * PAGE_SIZE
    /\ num_pages = MAX_PAGES

\* The cells of a leaf, in order.
Cells(pg) == [i \in 1..pg.num |-> pg.lc[i - 1]]

\* The cells of a leaf with one more cell spliced in at cell_num.
Spliced(pg, cell_num, cell) ==
    SubSeq(Cells(pg), 1, cell_num) \o <<cell>> \o SubSeq(Cells(pg), cell_num + 1, pg.num)

\* The cursor that Table::find returns for the key of the command this step
\* runs, and the leaf under it before the step.
Target == Find(M, last'.key)
TargetLeaf == Pg(Target.m, Target.page_num)

\* This step is an insert that succeeds on a leaf holding LEAF_NODE_MAX_CELLS cells.
SplitStep ==
    /\ alive
    /\ ops' = ops + 1
    /\ last'.cmd = "insert"
    /\ last'.res = "Ok"
    /\ IsOk(Target.m)
    /\ TargetLeaf.type = NodeLeaf
    /\ TargetLeaf.num = LEAF_NODE_MAX_CELLS

\* After this step the leaves on the pages left and right hold the cells of
\* the target leaf and the new cell, divided, and are linked as a split
\* links them.
DividedOver(left, right) ==
    /\ {left, right} \subseteq DOMAIN pages'
    /\ pages'[left].type = NodeLeaf
    /\ pages'[right].type = NodeLeaf
    /\ Cells(pages'[left]) \o Cells(pages'[right])
          = Spliced(TargetLeaf, Target.cell_num,
                    [key |-> last'.key, val |-> Serialize(last'.key, last'.val)])
    /\ pages'[left].num = LEAF_NODE_LEFT_SPLIT_COUNT
    /\ pages'[right].num = LEAF_NODE_RIGHT_SPLIT_COUNT
    /\ pages'[right].next_leaf = TargetLeaf.next_leaf
    /\ pages'[left].next_leaf = right
    /\ pages'[right].parent = pages'[left].parent

\* C25: an insert on a leaf L that holds LEAF_NODE_MAX_CELLS cells leaves
\* the first LEAF_NODE_LEFT_SPLIT_COUNT of the cells, the new one among them
\* at the cursor's place, in L and the other LEAF_NODE_RIGHT_SPLIT_COUNT in
\* the new leaf R, in order; R.next_leaf is L's old next_leaf, L.next_leaf is
\* R's page and R.parent = L.parent.
C25_LeafSplitDivides ==
    [][SplitStep => DividedOver(Target.page_num, NewPageNum(Target.m))]_vars

\* C26: when the leaf L that splits is the root, the root moves to a fresh
\* page: the metadata page names it, it is an internal node marked root with
\* two keys, the children L and R and their first keys as separators, L and
\* R have it as parent, and L is no longer marked root.
C26_RootSplitMovesRoot ==
    [][(SplitStep /\ TargetLeaf.is_root = 1) =>
          /\ RootNum' \notin DOMAIN Target.m.pages
          /\ RootNum' >= NewPageNum(Target.m)
          /\ RootNum' \in DOMAIN pages'
          /\ pages'[RootNum'].type = NodeInternal
          /\ pages'[RootNum'].is_root = 1
          /\ pages'[RootNum'].num = 2
          /\ pages'[RootNum'].ic[0].child = Target.page_num
          /\ pages'[RootNum'].ic[1].child = NewPageNum(Target.m)
          /\ pages'[RootNum'].ic[0].key = pages'[Target.page_num].lc[0].key
          /\ pages'[RootNum'].ic[1].key = pages'[NewPageNum(Target.m)].lc[0].key
          /\ pages'[Target.page_num].parent = RootNum'
          /\ pages'[NewPageNum(Target.m)].parent = RootNum'
          /\ pages'[Target.page_num].is_root = 0]_vars

\* The largest key among the cells of a leaf.
LargestKey(pg) == CHOOSE k \in {pg.lc[i].key : i \in 0..(pg.num - 1)} :
                      \A i \in 0..(pg.num - 1) : pg.lc[i].key <= k

\* C27: when the root leaf splits, the root stays on its page: the page
\* becomes an internal node with one key, the largest key of its child 0;
\* child 0 is a fresh page, the leaf of the LEAF_NODE_LEFT_SPLIT_COUNT cells
\* on the left, and the right child is the new leaf of the
\* LEAF_NODE_RIGHT_SPLIT_COUNT cells on the right.
C27_RootLeafSplitKeepsRootPage ==
    [][(SplitStep /\ TargetLeaf.is_root = 1) =>
          /\ RootNum' = RootNum
          /\ RootNum' = Target.page_num
          /\ pages'[RootNum].type = NodeInternal
          /\ pages'[RootNum].num = 1
          /\ pages'[RootNum].ic[0].child \notin DOMAIN Target.m.pages
          /\ pages'[RootNum].ic[0].child >= num_pages
          /\ pages'[RootNum].right_child = NewPageNum(Target.m)
          /\ pages'[RootNum].right_child # pages'[RootNum].ic[0].child
          /\ pages'[pages'[RootNum].ic[0].child].type = NodeLeaf
          /\ pages'[pages'[RootNum].ic[0].child].num = LEAF_NODE_LEFT_SPLIT_COUNT
          /\ pages'[pages'[RootNum].right_child].type = NodeLeaf
          /\ pages'[pages'[RootNum].right_child].num = LEAF_NODE_RIGHT_SPLIT_COUNT
          /\ pages'[RootNum].ic[0].key = LargestKey(pages'[pages'[RootNum].ic[0].child])
          /\ DividedOver(pages'[RootNum].ic[0].child, pages'[RootNum].right_child)]_vars

\* C27, a state in which it says something: the root leaf has just split on
\* an insert in the middle of its cells.
C27_Witness ==
    /\ alive
    /\ ops = LEAF_NODE_MAX_CELLS + 1
    /\ last.cmd = "insert"
    /\ last.res = "Ok"
    /\ done = {"insert"}
    /\ Page(RootNum).type = NodeInternal
    /\ Page(RootNum).num = 1
    /\ Page(Page(RootNum).ic[0].child).lc[1].key = last.key
    /\ Page(Page(RootNum).ic[0].child).num = LEAF_NODE_LEFT_SPLIT_COUNT
    /\ Page(Page(RootNum).right_child).num = LEAF_NODE_RIGHT_SPLIT_COUNT

\* The children of an internal page in the order of its entries, its right
\* child last.
ChildList(pg) == [i \in 1..(pg.num + 1) |-> IF i <= pg.num THEN pg.ic[i - 1].child
                                            ELSE pg.right_child]

\* The internal node that the split of the target leaf hands its new leaf
\* to, as it is before the step.
SplitParent == Pg(NodeAt(Target.m, TargetLeaf.parent), TargetLeaf.parent)

\* This step is an insert that succeeds by splitting a leaf whose parent
\* holds INTERNAL_NODE_MAX_CELLS keys, and so by splitting the parent.
InternalSplitStep ==
    /\ SplitStep
    /\ TargetLeaf.is_root = 0
    /\ SplitParent.type = NodeInternal
    /\ SplitParent.num >= INTERNAL_NODE_MAX_CELLS

\* The pages of the new internal node and, after the step, of the node that
\* split: a root that splits is copied to one more fresh page.
NewNode == NewPageNum(Target.m) + 1
OldNode == IF SplitParent.is_root = 1 THEN NewNode + 1 ELSE TargetLeaf.parent

\* The children of the two nodes after the step, the old node's first.
SplitChildren == ChildList(pages'[OldNode]) \o ChildList(pages'[NewNode])

\* Every key in the leaves under page a is below every key in the leaves
\* under page b.
Before(a, b) ==
    \A l \in Nodes(a, MaxDepth), r \in Nodes(b, MaxDepth) :
        (Page(l).type = NodeLeaf /\ Page(r).type = NodeLeaf) =>
            \A x \in LeafKeys(l), y \in LeafKeys(r) : x < y

\* Page c names page n as its parent.
HasParent(c, n) == Page(c).parent = n

\* C28: the split of a full internal node loses and duplicates no child: its
\* children and the promoted child are the children of the old and of the
\* new node, each once, in key order; the nodes hold
\* INTERNAL_NODE_LEFT_SPLIT_COUNT and INTERNAL_NODE_RIGHT_SPLIT_COUNT
\* entries, and every child of the new node has the new node as parent.
C28_InternalSplitKeepsChildren ==
    [][InternalSplitStep =>
          /\ pages'[OldNode].type = NodeInternal
          /\ pages'[NewNode].type = NodeInternal
          /\ pages'[OldNode].num = INTERNAL_NODE_LEFT_SPLIT_COUNT
          /\ pages'[NewNode].num = INTERNAL_NODE_RIGHT_SPLIT_COUNT
          /\ {SplitChildren[i] : i \in DOMAIN SplitChildren}
                = Kids(SplitParent) \cup {NewPageNum(Target.m)}
          /\ \A i, j \in DOMAIN SplitChildren : SplitChildren[i] = SplitChildren[j] => i = j
          /\ \A a, b \in 0..(num_pages' - 1) :
                (\E i \in DOMAIN SplitChildren :
                    /\ i + 1 \in DOMAIN SplitChildren
                    /\ SplitChildren[i] = a
                    /\ SplitChildren[i + 1] = b) => Before(a, b)'
          /\ \A c \in 0..(num_pages' - 1), n \in {NewNode} :
                (\E i \in DOMAIN ChildList(pages'[NewNode]) :
                    ChildList(pages'[NewNode])[i] = c) => HasParent(c, n)']_vars

\* This step is a delete that succeeds on a cell of a leaf that is not the
\* root and is left with fewer than LEAF_NODE_RIGHT_SPLIT_COUNT cells.
UnderflowStep ==
    /\ alive
    /\ ops' = ops + 1
    /\ last'.cmd = "delete"
    /\ last'.res = "Ok"
    /\ IsOk(Target.m)
    /\ TargetLeaf.type = NodeLeaf
    /\ TargetLeaf.is_root = 0
    /\ Target.cell_num < TargetLeaf.num
    /\ TargetLeaf.num - 1 < LEAF_NODE_RIGHT_SPLIT_COUNT

\* The cells of the target leaf without the cursor's cell.
Remaining ==
    SubSeq(Cells(TargetLeaf), 1, Target.cell_num)
        \o SubSeq(Cells(TargetLeaf), Target.cell_num + 2, TargetLeaf.num)

\* The leaf before the target leaf in the chain of next_leaf; 0 for none.
PreviousInChain ==
    IF \E p \in Leaves : Page(p).next_leaf = Target.page_num
    THEN CHOOSE p \in Leaves : Page(p).next_leaf = Target.page_num
    ELSE 0

\* The sibling the target leaf is balanced with, and the two as left and right.
Sibling == IF TargetLeaf.next_leaf # 0 THEN TargetLeaf.next_leaf ELSE PreviousInChain
LeftNum == IF TargetLeaf.next_leaf # 0 THEN Target.page_num ELSE Sibling
RightNum == IF TargetLeaf.next_leaf # 0 THEN Sibling ELSE Target.page_num
Joined ==
    IF TargetLeaf.next_leaf # 0 THEN Remaining \o Cells(Page(Sibling))
    ELSE Cells(Page(Sibling)) \o Remaining

\* In how many cells of the leaves of the tree key k is held.
KeyCount(k) ==
    Cardinality({s \in Leaves \X (0..(LEAF_NODE_MAX_CELLS - 1)) :
                    s[2] < Page(s[1]).num /\ Page(s[1]).lc[s[2]].key = k})

\* Page p is not a page of the tree.
Unlisted(p) == p \notin Nodes(RootNum, MaxDepth)

\* Every entry of the tree for page p holds the largest key of p.
SeparatorIsLargest(p) ==
    \A q \in Nodes(RootNum, MaxDepth) :
        Page(q).type = NodeInternal =>
            \A i \in 0..(Page(q).num - 1) :
                Page(q).ic[i].child = p => Page(q).ic[i].key = LargestKey(Page(p))

\* C29: a removal that leaves a leaf which is not the root with fewer than
\* LEAF_NODE_RIGHT_SPLIT_COUNT cells balances it with the next leaf, or with
\* the previous one where next_leaf = 0.  Where the cells of the two fit in
\* one leaf, the left one holds them all, in order, and takes the right
\* one's next_leaf, and the right one is no longer listed in the tree;
\* otherwise one cell moves over from the sibling and the entry of the left
\* one is set to its largest key.  No other key is lost or duplicated.
C29_UnderflowBalances ==
    [][UnderflowStep =>
          /\ Sibling # 0
          /\ IF Len(Joined) <= LEAF_NODE_MAX_CELLS
             THEN /\ Cells(pages'[LeftNum]) = Joined
                  /\ pages'[LeftNum].next_leaf = Page(RightNum).next_leaf
                  /\ \A r \in {RightNum} : Unlisted(r)'
             ELSE /\ Cells(pages'[Target.page_num])
                        = IF TargetLeaf.next_leaf # 0
                          THEN Remaining \o <<Cells(Page(Sibling))[1]>>
                          ELSE <<Cells(Page(Sibling))[Page(Sibling).num]>> \o Remaining
                  /\ Cells(pages'[Sibling])
                        = IF TargetLeaf.next_leaf # 0
                          THEN Tail(Cells(Page(Sibling)))
                          ELSE SubSeq(Cells(Page(Sibling)), 1, Page(Sibling).num - 1)
                  /\ \A l \in {LeftNum} : SeparatorIsLargest(l)'
          /\ \A k \in Keys :
                KeyCount(k)' = KeyCount(k) - (IF k = last'.key THEN 1 ELSE 0)]_vars

\* This step is a delete that succeeds on a cell of a leaf that is the root
\* or keeps LEAF_NODE_RIGHT_SPLIT_COUNT cells or more.
PlainRemoveStep ==
    /\ alive
    /\ ops' = ops + 1
    /\ last'.cmd = "delete"
    /\ last'.res = "Ok"
    /\ IsOk(Target.m)
    /\ TargetLeaf.type = NodeLeaf
    /\ Target.cell_num < TargetLeaf.num
    /\ (TargetLeaf.is_root = 1 \/ TargetLeaf.num - 1 >= LEAF_NODE_RIGHT_SPLIT_COUNT)

\* C30: a removal on a leaf that is the root, or that keeps
\* LEAF_NODE_RIGHT_SPLIT_COUNT cells or more, takes out the cursor's cell and
\* nothing else: the cells behind it move up by one, num_cells goes down by
\* one, the leaf's other fields and every other page stay as they were, and
\* the cursor's position then holds the cell that followed the removed one,
\* the next key of the leaf, where there is one.
C30_PlainRemoveIsLocal ==
    [][PlainRemoveStep =>
          /\ Cells(pages'[Target.page_num]) = Remaining
          /\ pages'[Target.page_num].num = TargetLeaf.num - 1
          /\ pages'[Target.page_num].type = TargetLeaf.type
          /\ pages'[Target.page_num].is_root = TargetLeaf.is_root
          /\ pages'[Target.page_num].parent = TargetLeaf.parent
          /\ pages'[Target.page_num].next_leaf = TargetLeaf.next_leaf
          /\ num_pages' = num_pages
          /\ DOMAIN pages \subseteq DOMAIN pages'
          /\ \A p \in DOMAIN pages' \ {Target.page_num} : pages'[p] = Page(p)
          /\ Target.cell_num < TargetLeaf.num - 1 =>
                /\ pages'[Target.page_num].lc[Target.cell_num]
                      = TargetLeaf.lc[Target.cell_num + 1]
                /\ pages'[Target.page_num].lc[Target.cell_num].key > last'.key
                /\ \A i \in 0..(TargetLeaf.num - 1) :
                      TargetLeaf.lc[i].key > last'.key =>
                          TargetLeaf.lc[i].key >= pages'[Target.page_num].lc[Target.cell_num].key]_vars

\* Page p is unlinked: no node of the tree lists it as a child and no leaf
\* of the tree names it as next_leaf.
Unlinked(p) == Unlisted(p) /\ \A q \in Leaves : Page(q).next_leaf # p

\* This step is a delete that succeeds by merging two leaves.
LeafMergeStep == UnderflowStep /\ Sibling # 0 /\ Len(Joined) <= LEAF_NODE_MAX_CELLS

\* C31: after a merge the right node, merged away, is unlinked: no node
\* reachable from the root lists its page as a child and no reachable leaf
\* names it as next_leaf.
C31_MergedAwayUnlinked ==
    [][LeafMergeStep => \A r \in {RightNum} : Unlinked(r)']_vars

\* ------------------------------------------------- searches within a node
\* The i-th key of the set S of keys, in ascending order, counted from 0.
Nth(S, i) == CHOOSE k \in S : Cardinality({j \in S : j < k}) = i

\* The root leaf of a table into which the keys of S were inserted (node.rs,
\* LeafMut::insert_cell keeps the cells of a leaf in the order of their keys).
LeafOf(S) ==
    [InitLeafPage(ZeroPage) EXCEPT
        !.is_root = 1,
        !.num = Cardinality(S),
        !.lc = [i \in 0..(LeafSlots - 1) |->
                   IF i < Cardinality(S)
                   THEN [key |-> Nth(S, i), val |-> Serialize(Nth(S, i), 1)]
                   ELSE ZeroCell]]

\* The sets of keys that fit one leaf.
LeafKeySets == {S \in SUBSET FewKeys : Cardinality(S) <= LEAF_NODE_MAX_CELLS}

\* A session on a table whose root is a leaf with the keys of one of the sets.
InitProbe ==
    /\ file = <<>>
    /\ file_bytes = 0
    /\ file_length = 0
    /\ num_pages = PagerOpen(0).num_pages
    /\ \E S \in LeafKeySets :
          /\ pages = [PagerOpen(0).pages EXCEPT ![DEFAULT_ROOT_NUM] = LeafOf(S)]
          /\ rows = [k \in LongKeys |-> IF k \in S THEN 1 ELSE 0]
    /\ alive = TRUE
    /\ done = {}
    /\ ops = 0
    /\ last = Cmd("open", 0, 0, "Ok")

\* What a call returned: the cursor without the table it borrows.
Returned(c) ==
    [page_num |-> c.page_num, cell_num |-> c.cell_num, end_of_table |-> c.end_of_table]

\* A call of Table::find_leaf(DEFAULT_ROOT_NUM, k), as in the test find_leaf.
FindLeafAt(k) ==
    /\ alive
    /\ Page(DEFAULT_ROOT_NUM).type = NodeLeaf
    /\ \E c \in {FindLeaf(M, DEFAULT_ROOT_NUM, k)} :
          /\ pages' = c.m.pages
          /\ num_pages' = c.m.num_pages
          /\ last' = Cmd("find_leaf", k, Returned(c), c.m.st)
    /\ UNCHANGED <<file, file_bytes, file_length, alive, rows, done, ops>>

NextProbe ==
    \/ \E k \in Keys : FindLeafAt(k)

SpecProbe == InitProbe /\ [][NextProbe]_vars

\* The keys of the cells of leaf pg ascend strictly.
StrictlyAscending(pg) ==
    \A i \in 0..(pg.num - 1) : \A j \in 0..(pg.num - 1) : i < j => pg.lc[i].key < pg.lc[j].key

\* The smallest index of a cell of pg whose key is k or more, the number of
\* cells when there is none.
LowerBound(pg, k) ==
    IF \E i \in 0..(pg.num - 1) : pg.lc[i].key >= k
    THEN CHOOSE i \in 0..(pg.num - 1) :
            /\ pg.lc[i].key >= k
            /\ \A j \in 0..(i - 1) : pg.lc[j].key < k
    ELSE pg.num

\* C32: find_leaf(page, k) on a leaf with strictly ascending keys returns a
\* cursor on that page whose cell_num is the smallest index i with
\* key(i) >= k, or num_cells when every key is smaller than k, with
\* end_of_table = false, and it modifies nothing.
C32_FindLeafLowerBound ==
    [][(last'.cmd = "find_leaf" /\ StrictlyAscending(Page(DEFAULT_ROOT_NUM)))
        => /\ last'.res = "ok"
           /\ last'.val = [page_num |-> DEFAULT_ROOT_NUM,
                           cell_num |-> LowerBound(Page(DEFAULT_ROOT_NUM), last'.key),
                           end_of_table |-> FALSE]
           /\ UNCHANGED <<file, file_bytes, file_length, num_pages, pages>>]_vars

\* find_leaf has answered for a key that lies between the keys of a full leaf,
\* and for a key above all the keys of a leaf.
C32_Witness ==
    /\ last.cmd = "find_leaf"
    /\ Page(DEFAULT_ROOT_NUM).num = LEAF_NODE_MAX_CELLS
    /\ last.val.cell_num \in 1..(LEAF_NODE_MAX_CELLS - 1)
    /\ Page(DEFAULT_ROOT_NUM).lc[last.val.cell_num].key > last.key

\* The internal nodes of the tree.
Internals == {p \in Nodes(RootNum, MaxDepth) : Page(p).type = NodeInternal}

\* The keys held in the leaves below page p.
KeysBelow(p) ==
    UNION {LeafKeys(q) : q \in {n \in Nodes(p, MaxDepth) : Page(n).type = NodeLeaf}}

\* The separators of internal node pg ascend strictly.
SeparatorsAscend(pg) ==
    \A i \in 0..(pg.num - 1) : \A j \in 0..(pg.num - 1) : i < j => pg.ic[i].key < pg.ic[j].key

\* The greatest index of an entry of pg whose key is k or less, -1 when
\* there is none.
GreatestAtMost(pg, k) ==
    IF \E i \in 0..(pg.num - 1) : pg.ic[i].key <= k
    THEN CHOOSE i \in 0..(pg.num - 1) :
            /\ pg.ic[i].key <= k
            /\ \A j \in (i + 1)..(pg.num - 1) : pg.ic[j].key > k
    ELSE -1

\* C33 (the search within a node): on an internal node of the tree with
\* strictly ascending separators, find_key(k) returns the greatest index i
\* with key_at(i) <= k and no index when k is smaller than separator 0, where
\* the descent follows child 0.
C33_FindKeyGreatestAtMost ==
    \A p \in Internals : \A k \in Keys :
        SeparatorsAscend(Page(p)) =>
            /\ FindKey(Page(p), k) = GreatestAtMost(Page(p), k)
            /\ (k < Page(p).ic[0].key => FindKeyIndex(Page(p), k) = 0)

\* C33: find_key(k) on an internal node with strictly ascending separators
\* returns the greatest index i with key_at(i) <= k, or none, and hence
\* find(k) descends into the child whose range contains k: at every internal
\* node of the tree, for a key held below one child only, into that child.
C33_FindDescendsIntoRange ==
    /\ C33_FindKeyGreatestAtMost
    /\ \A p \in Internals : \A k \in Keys :
          SeparatorsAscend(Page(p)) =>
              \A i \in 1..(Page(p).num + 1) :
                  (/\ k \in KeysBelow(ChildList(Page(p))[i])
                   /\ \A j \in 1..(Page(p).num + 1) :
                         j # i => k \notin KeysBelow(ChildList(Page(p))[j]))
                  => Page(p).ic[FindKeyIndex(Page(p), k)].child = ChildList(Page(p))[i]

\* ------------------------------------------------------- a scan, by steps
\* The commands that leave a cursor in last.val.
ScanCmds == {"start", "advance"}

\* The scan of Statement::execute, SelectAll is under way: it holds a cursor
\* that is not at the end of the table.
Scanning == alive /\ last.cmd \in ScanCmds /\ last.res = "Ok" /\ ~last.val.end_of_table

\* The cursor of the scan, on the machine as it is.
ScanCursor ==
    [m |-> M, page_num |-> last.val.page_num, cell_num |-> last.val.cell_num,
     end_of_table |-> last.val.end_of_table]

\* A call of the scan has returned cursor c: an Err (or a panic) ends the scan.
ScanStep(c, cmd) ==
    /\ alive' = (c.m.st # "panic")
    /\ pages' = IF c.m.st = "panic" THEN NoPages ELSE c.m.pages
    /\ num_pages' = IF c.m.st = "panic" THEN 0 ELSE c.m.num_pages
    /\ file_length' = IF c.m.st = "panic" THEN 0 ELSE file_length
    /\ last' = Cmd(cmd, 0, Returned(c), IF IsOk(c.m) THEN "Ok" ELSE c.m.st)
    /\ UNCHANGED <<file, file_bytes, rows, done, ops>>

\* Statement::execute, SelectAll: table.start().
StartScan ==
    /\ alive
    /\ last.cmd \notin ScanCmds
    /\ \E c \in {Start(M)} : ScanStep(c, "start")

\* Statement::execute, SelectAll: one round of the loop, cursor.advance().
AdvanceScan ==
    /\ Scanning
    /\ \E c \in {Advance(ScanCursor)} : ScanStep(c, "advance")

\* Sessions of inserts and deletes that end with a scan of the table.
NextScan ==
    \/ \E k \in DeepKeys : Insert(k, 1) /\ Within(MaxOpsDeep, PageBudget) /\ last.cmd \notin ScanCmds
    \/ \E k \in DeepKeys : Delete(k) /\ Within(MaxOpsDeep, PageBudget) /\ last.cmd \notin ScanCmds
    \/ StartScan
    \/ AdvanceScan

SpecScan == Init /\ [][NextScan]_vars

\* The leaf the cursor of the scan stands on.
ScanLeaf == Page(last.val.page_num)

\* Advance changes only the cursor. It increments cell_num;
\* when the new cell_num reaches the leaf's num_cells it moves to cell 0 of
\* the next leaf if next_leaf is not 0, and else sets end_of_table and keeps
\* the page; it never modifies a page.
C34_AdvanceMovesCursorOnly ==
    [][(Scanning /\ last'.cmd = "advance") =>
        /\ last'.res = "Ok"
        /\ UNCHANGED <<file, file_bytes, file_length, num_pages, pages, alive>>
        /\ last'.val =
              IF last.val.cell_num + 1 < ScanLeaf.num
              THEN [page_num |-> last.val.page_num, cell_num |-> last.val.cell_num + 1,
                    end_of_table |-> FALSE]
              ELSE IF ScanLeaf.next_leaf # 0
              THEN [page_num |-> ScanLeaf.next_leaf, cell_num |-> 0, end_of_table |-> FALSE]
              ELSE [page_num |-> last.val.page_num, cell_num |-> last.val.cell_num + 1,
                    end_of_table |-> TRUE]]_vars

\* The scan has moved from the last cell of a leaf to the next leaf.
C34_Witness ==
    /\ Scanning
    /\ last.cmd = "advance"
    /\ last.val.cell_num = 0
    /\ last.val.page_num # LeftmostLeaf(RootNum, MaxDepth)
    /\ ChainCoversLeaves /\ ChainAscends
    /\ last.val.cell_num < ScanLeaf.num

\* In a scan of a tree that satisfies the leaf-chain invariant, the cursor
\* has a cell whenever end_of_table is false.
C34_CursorHasCell ==
    (Scanning /\ ChainCoversLeaves /\ ChainAscends) =>
        last.val.cell_num < ScanLeaf.num

\* C34: advance changes only the cursor, as C34_AdvanceMovesCursorOnly has
\* it, and never modifies a page; in a scan of a tree that satisfies the
\* leaf-chain invariant the cursor therefore has a cell whenever
\* end_of_table is false.
C34_AdvanceKeepsCursorOnCell ==
    C34_AdvanceMovesCursorOnly /\ [](C34_CursorHasCell)

\* The keys 0 .. n - 1 have been inserted in ascending order into an empty
\* table, and nothing else has been done.
AscendingRun(n) ==
    /\ alive
    /\ ops = n
    /\ done = {"insert"}
    /\ \A k \in LongKeys : Present(k) <=> k < n

\* C35: with LEAF_NODE_MAX_CELLS = 4 and INTERNAL_NODE_MAX_CELLS = 4, after
\* the inserts of the keys 0..=14 in ascending order into an empty table the
\* tree has depth 2: the root is an internal node and all of its children are
\* internal nodes.
C35_FifteenKeysDepthTwo ==
    AscendingRun(15) =>
        /\ Page(RootNum).type = NodeInternal
        /\ \A i \in 1..(Page(RootNum).num + 1) :
              Page(ChildList(Page(RootNum))[i]).type = NodeInternal
        /\ Depths(RootNum, 0, MaxDepth) = {2}

\* The command just run is an insert, or a delete of a key that was present.
InsertOrDeleteOfPresent ==
    \/ last'.cmd = "insert"
    \/ last'.cmd = "delete" /\ Present(last'.key)

\* C36: every insert and every delete of a present key on a tree reached
\* from an empty table runs to completion and returns Ok: no cascade and no
\* search for a sibling ends in a panic or fails to end.
C36_InsertDeleteComplete ==
    [][(alive /\ last' # last /\ InsertOrDeleteOfPresent) => last'.res = "Ok"]_vars

\* Leaves a and b are children of one internal node of the tree.
SameParent(a, b) ==
    \E q \in Internals :
        /\ \E i \in 1..(Page(q).num + 1) : ChildList(Page(q))[i] = a
        /\ \E i \in 1..(Page(q).num + 1) : ChildList(Page(q))[i] = b

\* A leaf of the tree holds exactly the cells s.
HeldByALeaf(s) == \E p \in Leaves : Cells(Page(p)) = s

\* C37: in every leaf merge performed by remove the two leaves are children
\* of the same parent, and the entry removed from that parent is the entry of
\* the merged-away right leaf: afterwards the right leaf is not a page of the
\* tree and a leaf of the tree holds the cells of the two.
C37_MergeWithinParent ==
    [][LeafMergeStep =>
        /\ SameParent(LeftNum, RightNum)
        /\ \A r \in {RightNum} : Unlisted(r)'
        /\ \A j \in {Joined} : HeldByALeaf(j)']_vars

\* Sessions on a table whose pager has handed out all but the last page or
\* two of the MAX_PAGES pages, so that a split runs out of pages.
MaxOpsFull == 6
FullPages == {MAX_PAGES - 2, MAX_PAGES - 1}

NextFull ==
    \/ \E p \in FullPages : Get(p)
    \/ \E k \in DeepKeys : Insert(k, 1) /\ Within(MaxOpsFull, MAX_PAGES)

SpecFull == Init /\ [][NextFull]_vars

\* select k returns the row of key k.
Selected(k) == Selects(M, k)

\* select without a key returns the row of key k.
Scanned(k) ==
    \A r \in {ExecSelectAll(M)} :
        r.res = "Ok" /\ \E i \in 1..Len(r.out) : r.out[i] = Serialize(k, rows[k])

\* C38: when an insert fails with TableFull because a split needs a page
\* beyond MAX_PAGES, every key that was in the table before the failed
\* insert is still returned with its value by select k and by select
\* without a key afterwards.
C38_TableFullLosesNoRow ==
    [][(alive /\ last'.cmd = "insert" /\ last'.res = "TableFull" /\ last' # last) =>
        \A k \in DeepKeys :
            /\ (Present(k) /\ Selected(k)) => Selected(k)'
            /\ (Present(k) /\ Scanned(k)) => Scanned(k)']_vars

\* Machine m, on which a read has run from the present state, has the pages
\* and the number of pages of the present state: every page in its cache
\* reads as it did, and no page was added.
Pure(m) ==
    m.st \notin {"panic", "hang"} =>
        /\ m.num_pages = num_pages
        /\ \A p \in DOMAIN m.pages : m.pages[p] = Page(p)

\* The cursors on the cells of the leaves of the tree, and one past them.
LeafCursors ==
    {Cursor(M, p, i) : p \in Leaves, i \in 0..LEAF_NODE_MAX_CELLS}

\* C39: the read operations are pure with respect to the tree: find, start,
\* has_cell, advance, select k (with the cursor's get) and select without a
\* key change no page buffer content and do not change num_pages; no read
\* materializes a new zero-filled page.
C39_ReadsArePure ==
    alive =>
        /\ \A k \in Keys : Pure(Find(M, k).m) /\ Pure(ExecSelect(M, k).m)
        /\ Pure(Start(M).m)
        /\ Pure(ExecSelectAll(M).m)
        /\ \A c \in LeafCursors : Pure(HasCell(c).m) /\ Pure(Advance(c).m)

\* C40: page 0 is never a tree node: the root page number is not 0, no
\* internal node of the tree has 0 as a child pointer, and no node of the
\* tree but the root has 0 as its parent field; hence next_leaf = 0 always
\* means that there is no next leaf.
C40_PageZeroIsNoNode ==
    (alive /\ done \subseteq {"insert", "delete"}) =>
        /\ RootNum # META_NODE_NUM
        /\ \A p \in Internals : META_NODE_NUM \notin Kids(Page(p))
        /\ \A p \in Nodes(RootNum, MaxDepth) \ {RootNum} : Page(p).parent # META_NODE_NUM

====
